---------------------------- MODULE Spec2Model ----------------------------
(***************************************************************************)
(* A model of the tabular-analysis column type inference engine            *)
(* (src/wasm/tabular_analysis/src).                                        *)
(*                                                                         *)
(* Strings are sequences of one-character strings, so that trimming,       *)
(* splitting, parsing and regular-expression matching are computed the     *)
(* way the code computes them.  f64 values are exact rationals <<n, d>>    *)
(* (d > 0, lowest terms); <<0, 0>> is NaN.                                 *)
(***************************************************************************)
EXTENDS Integers, Sequences, FiniteSets, TLC

VARIABLES
    pc,           \* where the caller is: before ("call") or after ("done") the call
    d_value,      \* date.rs: the &str handed to the Date recognizer
    d_result,     \* date.rs: what Date::from_str returned for it
    d_conf,       \* date.rs: what DateType::detect_confidence returned for it
    sc_values,    \* type_scoring.rs: the column handed to TypeScores::from_column
    sc_scores,    \* type_scoring.rs: the TypeScores struct
    sc_best,      \* type_scoring.rs: what TypeScores::best_type returned
    csv_columns,  \* csv.rs: CSV.columns, a Vec of Column {header, values, metadata}
    csv_row_count,\* csv.rs: CSV.row_count
    csv_result,   \* csv.rs: the Result of the last call on the CSV
    cat_name,     \* categorical.rs: the column_name handed to analyze_column
    cat_values,   \* categorical.rs: the values handed to analyze_column
    cat_result,   \* categorical.rs: the (is_categorical, score) it returned
    an_header,    \* types.rs: the header handed to analyze_single_column
    an_values,    \* types.rs: the values handed to analyze_single_column
    an_metadata,  \* types.rs: the ColumnMetadata it returned
    n_type,       \* types/*.rs: the recognizer whose normalize is called
    n_value,      \* types/*.rs: the &str handed to normalize
    n_first,      \* types/*.rs: what normalize returned for it
    n_second,     \* types/*.rs: what normalize returned for its own output
    da_values,    \* types.rs: the values handed to detect_anomalies
    da_expected,  \* types.rs: the expected_type handed to detect_anomalies
    da_anomalies, \* types.rs: the Vec<Anomaly> it returned
    ns_values,    \* types.rs: the values handed to calculate_numeric_stats
    ns_stats,     \* types.rs: the Option<NumericStats> it returned
    sq_values,    \* types.rs: the column whose declaration is asked for
    sq_type,      \* types.rs: the data_type handed to determine_sql_type
    sq_null_count,    \* types.rs: the null_count of the column
    sq_numeric_stats, \* types.rs: the numeric_stats handed to determine_sql_type
    sq_text_stats,    \* types.rs: the text_stats handed to determine_sql_type
    sq_sql,       \* types.rs: the String determine_sql_type returned
    tw_values,    \* types.rs: the column analyze_single_column is called on twice
    tw_order,     \* types.rs: the order of the keys of the static TYPE_PATTERNS, once built
    tw_first,     \* types.rs: what the first call returned
    tw_second,    \* types.rs: what the second call returned
    ix_col,       \* types.rs: the ColumnMetadata handed to should_create_index
    ix_result,    \* types.rs: the bool it returned
    wk_columns,   \* types.rs: the columns of the CSV, each a header and its values
    wk_num_workers,\* types.rs: num_workers of analyze_with_workers
    wk_inbox,     \* types.rs: for each Worker, the WorkerMessages posted to it and not yet handled
    wk_events,    \* types.rs: for each Worker, the WorkerResponses it posted, not yet delivered
    wk_tasks,     \* types.rs: the responses held by the tasks of spawn_local, not yet sent
    wk_channel,   \* types.rs: the responses in the mpsc channel
    wk_completed, \* types.rs: completed_count
    wk_slots,     \* types.rs: the Vec<Option<ColumnMetadata>> columns of analyze_with_workers
    wk_received,  \* types.rs: received
    wk_terminated,\* types.rs: whether worker.terminate() has been called on the Workers
    wk_result,    \* types.rs: the columns of the CSVFile analyze_with_workers returned
    ex_columns,   \* executor.rs: the columns handed to process_columns
    ex_kind,      \* executor.rs: the processor and the combiner handed to it
    ex_results,   \* executor.rs: the Vec<R> it returned
    api_call,     \* csv.rs: the last method called on the CSV, with its arguments
    api_calls,    \* csv.rs: the number of calls made on the CSV
    api_stored,   \* csv.rs: the indexes for which a call has stored metadata
    sch_columns,  \* types.rs: the ColumnMetadata handed to generate_sql_schema
    sch_sql,      \* types.rs: the String it returned
    dv_value,     \* types.rs: the value handed to detect_single_value_type
    dv_order,     \* types.rs: the order in which TYPE_PATTERNS.iter() visits the map in this process
    dv_result     \* types.rs: the (DataType, f64) it returned

dateVars == <<d_value, d_result, d_conf>>
scoreVars == <<sc_values, sc_scores, sc_best>>
csvVars == <<csv_columns, csv_row_count, csv_result>>
catVars == <<cat_name, cat_values, cat_result>>
anVars == <<an_header, an_values, an_metadata>>
normVars == <<n_type, n_value, n_first, n_second>>
anomalyVars == <<da_values, da_expected, da_anomalies>>
statsVars == <<ns_values, ns_stats>>
twiceVars == <<tw_values, tw_order, tw_first, tw_second>>
sqlVars == <<sq_values, sq_type, sq_null_count, sq_numeric_stats, sq_text_stats, sq_sql>>
indexVars == <<ix_col, ix_result>>
workerVars == <<wk_columns, wk_num_workers, wk_inbox, wk_events, wk_tasks, wk_channel, wk_completed, wk_slots, wk_received, wk_terminated, wk_result>>
execVars == <<ex_columns, ex_kind, ex_results>>
apiVars == <<api_call, api_calls, api_stored>>
schemaVars == <<sch_columns, sch_sql>>
detectVars == <<dv_value, dv_order, dv_result>>
vars == <<pc, dateVars, scoreVars, csvVars, catVars, anVars, normVars, anomalyVars, twiceVars,
          statsVars, sqlVars, indexVars, workerVars, execVars, apiVars, schemaVars, detectVars>>

(***************************************************************************)
(* Characters and strings                                                  *)
(***************************************************************************)
DigitSeq == <<"0", "1", "2", "3", "4", "5", "6", "7", "8", "9">>
LowerSeq == <<"a", "b", "c", "d", "e", "f", "g", "h", "i", "j", "k", "l", "m",
              "n", "o", "p", "q", "r", "s", "t", "u", "v", "w", "x", "y", "z">>
UpperSeq == <<"A", "B", "C", "D", "E", "F", "G", "H", "I", "J", "K", "L", "M",
              "N", "O", "P", "Q", "R", "S", "T", "U", "V", "W", "X", "Y", "Z">>

Range(f) == {f[i] : i \in DOMAIN f}

\* a let binding whose value is computed once: F applied to the value of x
Eval(x, F(_)) == CHOOSE r \in {F(v) : v \in {x}} : TRUE

Digit == Range(DigitSeq)
Lower == Range(LowerSeq)
Upper == Range(UpperSeq)
Alpha == Lower \cup Upper
AlphaNum == Alpha \cup Digit
\* char::is_whitespace, on the characters the model uses
WhiteSpace == {" ", "\t", "\n"}

\* char::to_digit(10) of an ASCII digit
DigitVal(c) == CHOOSE i \in 0..9 : DigitSeq[i + 1] = c

\* char::to_lowercase / str::to_lowercase
LowerChar(c) ==
    IF c \in Upper THEN LowerSeq[CHOOSE i \in 1..26 : UpperSeq[i] = c] ELSE c

ToLowercase(s) == [i \in 1..Len(s) |-> LowerChar(s[i])]

\* str::trim: drops leading and trailing whitespace
RECURSIVE TrimStart(_)
TrimStart(s) ==
    IF s # <<>> /\ Head(s) \in WhiteSpace THEN TrimStart(Tail(s)) ELSE s

RECURSIVE TrimEnd(_)
TrimEnd(s) ==
    IF s # <<>> /\ s[Len(s)] \in WhiteSpace
    THEN TrimEnd(SubSeq(s, 1, Len(s) - 1)) ELSE s

Trim(s) == TrimEnd(TrimStart(s))

\* str::replace(c, ""): drops every occurrence of one character
RemoveChar(s, c) == SelectSeq(s, LAMBDA x : x # c)

\* str::split on a set of separator characters: the pieces between them
RECURSIVE SplitOn(_, _)
SplitOn(s, seps) ==
    IF \A i \in 1..Len(s) : s[i] \notin seps THEN <<s>>
    ELSE LET k == CHOOSE i \in 1..Len(s) :
                      s[i] \in seps /\ \A j \in 1..(i - 1) : s[j] \notin seps
         IN  <<SubSeq(s, 1, k - 1)>> \o SplitOn(SubSeq(s, k + 1, Len(s)), seps)

AllDigits(s) == \A i \in 1..Len(s) : s[i] \in Digit

\* str::parse::<u32> of a string of ASCII digits (the model's strings have at
\* most 5 digits per component, far below u32::MAX)
RECURSIVE ParseNat(_)
ParseNat(s) ==
    IF s = <<>> THEN 0 ELSE 10 * ParseNat(SubSeq(s, 1, Len(s) - 1)) + DigitVal(s[Len(s)])

(***************************************************************************)
(* Regular expressions (the regex crate's is_match).  A pattern is a tree: *)
(* Chr(S) one character of S, Cat(<<..>>) a sequence, Alt(<<..>>) a        *)
(* choice, Rep(r, lo, hi) a repetition (hi = Inf for * and +).             *)
(* Ends(re, s, from) is the set of offsets at which a match of re that     *)
(* starts at an offset of `from` can end.                                  *)
(***************************************************************************)
Inf == -1
Chr(S) == [t |-> "chr", cs |-> S]
Cat(ps) == [t |-> "cat", ps |-> ps]
Alt(ps) == [t |-> "alt", ps |-> ps]
Rep(r, lo, hi) == [t |-> "rep", r |-> r, lo |-> lo, hi |-> hi]
Opt(r) == Rep(r, 0, 1)
Star(r) == Rep(r, 0, Inf)
Plus(r) == Rep(r, 1, Inf)
\* a literal string, and a literal under the (?i) flag
Lit(s) == Cat([i \in 1..Len(s) |-> Chr({s[i]})])
LitCI(s) == Cat([i \in 1..Len(s) |->
                   Chr({c \in Alpha \cup {s[i]} : LowerChar(c) = LowerChar(s[i])})])

RECURSIVE Ends(_, _, _)
RECURSIVE CatEnds(_, _, _, _)
RECURSIVE RepEnds(_, _, _, _)

CatEnds(ps, i, s, cur) ==
    IF i > Len(ps) \/ cur = {} THEN cur
    ELSE CatEnds(ps, i + 1, s, Ends(ps[i], s, cur))

\* cur: the offsets reached after exactly k repetitions
RepEnds(re, s, cur, k) ==
    IF cur = {} THEN {}
    ELSE (IF k >= re.lo THEN cur ELSE {})
         \cup (IF (re.hi # Inf /\ k >= re.hi) \/ k > Len(s) THEN {}
               ELSE RepEnds(re, s, Ends(re.r, s, cur), k + 1))

Ends(re, s, from) ==
    CASE re.t = "chr" -> {p + 1 : p \in {q \in from : q < Len(s) /\ s[q + 1] \in re.cs}}
      [] re.t = "cat" -> CatEnds(re.ps, 1, s, from)
      [] re.t = "alt" -> UNION {Ends(re.ps[i], s, from) : i \in 1..Len(re.ps)}
      [] re.t = "rep" -> RepEnds(re, s, from, 0)

\* a pattern written ^...$ : the whole string
FullMatch(re, s) == Len(s) \in Ends(re, s, {0})
\* a pattern without anchors: anywhere in the string
Search(re, s) == Ends(re, s, 0..Len(s)) # {}

D(n) == Rep(Chr(Digit), n, n)
DRange(lo, hi) == Rep(Chr(Digit), lo, hi)

(***************************************************************************)
(* types/date.rs                                                           *)
(***************************************************************************)
\* Option::None; every Some is a record too
None == [none |-> TRUE]

\* enum DateFormat
DateFormats == {"Iso8601", "UsSlash", "EuropeanDash", "EuropeanSlash",
                "JapaneseSlash", "UsDash"}

\* DateFormat::pattern
DatePattern(format) ==
    CASE format = "Iso8601"       -> Cat(<<D(4), Chr({"-"}), D(2), Chr({"-"}), D(2)>>)
      [] format = "UsSlash"       -> Cat(<<DRange(1, 2), Chr({"/"}), DRange(1, 2), Chr({"/"}), D(4)>>)
      [] format = "EuropeanDash"  -> Cat(<<DRange(1, 2), Chr({"-"}), DRange(1, 2), Chr({"-"}), D(4)>>)
      [] format = "EuropeanSlash" -> Cat(<<DRange(1, 2), Chr({"/"}), DRange(1, 2), Chr({"/"}), D(4)>>)
      [] format = "JapaneseSlash" -> Cat(<<D(4), Chr({"/"}), D(2), Chr({"/"}), D(2)>>)
      [] format = "UsDash"        -> Cat(<<DRange(1, 2), Chr({"-"}), DRange(1, 2), Chr({"-"}), D(4)>>)

\* DateFormat::matches
DateMatches(format, value) == FullMatch(DatePattern(format), value)

\* str::parse::<u32>().ok(): Some for a non-empty string of digits
ParseU32Ok(s) == s # <<>> /\ AllDigits(s)

\* DateFormat::extract_components
ExtractComponents(format, value) ==
    LET parts == SplitOn(value, {"/", "-"})
        numbers == [i \in 1..Len(SelectSeq(parts, ParseU32Ok)) |->
                        ParseNat(SelectSeq(parts, ParseU32Ok)[i])]
    IN  IF Len(parts) # 3 THEN None
        ELSE IF Len(numbers) # 3 THEN None
        ELSE CASE format \in {"Iso8601", "JapaneseSlash"} ->
                      [year |-> numbers[1], month |-> numbers[2], day |-> numbers[3]]
               [] format \in {"UsSlash", "UsDash"} ->
                      [year |-> numbers[3], month |-> numbers[1], day |-> numbers[2]]
               [] format \in {"EuropeanDash", "EuropeanSlash"} ->
                      [year |-> numbers[3], month |-> numbers[2], day |-> numbers[1]]

\* DateType::is_valid_date
IsValidDate(year, month, day) ==
    IF year < 1000 \/ year > 9999 \/ month < 1 \/ month > 12 \/ day < 1 \/ day > 31
    THEN FALSE
    ELSE LET days_in_month ==
                 CASE month \in {4, 6, 9, 11} -> 30
                   [] month = 2 ->
                        IF (year % 4 = 0 /\ year % 100 # 0) \/ year % 400 = 0
                        THEN 29 ELSE 28
                   [] OTHER -> 31
         IN  day <= days_in_month

\* Date::new
DateNew(year, month, day, format) ==
    IF IsValidDate(year, month, day)
    THEN [year |-> year, month |-> month, day |-> day, format |-> format]
    ELSE None

\* the order in which Date::from_str tries the formats
FromStrOrder == <<"Iso8601", "JapaneseSlash", "UsSlash", "EuropeanDash",
                  "EuropeanSlash", "UsDash">>

\* the `for format in [...]` loop of Date::from_str, from its i-th format on:
\* the first format that matches and yields components returns, valid or not
RECURSIVE FromStrLoop(_, _)
FromStrLoop(clean_value, i) ==
    IF i > Len(FromStrOrder) THEN None
    ELSE LET format == FromStrOrder[i]
             c == ExtractComponents(format, clean_value)
         IN  IF DateMatches(format, clean_value) /\ c # None
             THEN LET year == IF c.year < 100
                              THEN c.year + (IF c.year < 50 THEN 2000 ELSE 1900)
                              ELSE c.year
                  IN  DateNew(year, c.month, c.day, format)
             ELSE FromStrLoop(clean_value, i + 1)

\* Date::from_str
DateFromStr(value) ==
    LET clean_value == Trim(value)
    IN  IF clean_value = <<>> THEN None ELSE FromStrLoop(clean_value, 1)

(***************************************************************************)
(* f64 as exact rationals                                                  *)
(***************************************************************************)
RECURSIVE GCD(_, _)
GCD(a, b) == IF b = 0 THEN a ELSE GCD(b, a % b)

Abs(x) == IF x < 0 THEN -x ELSE x

NaN == <<0, 0>>
IsNaN(x) == x[2] = 0
\* n / d in lowest terms; 0.0 / 0.0 is NaN
Frac(n, d) ==
    IF d = 0 THEN NaN
    ELSE LET g == GCD(Abs(n), Abs(d))
             sgn == IF d < 0 THEN -1 ELSE 1
         IN  <<sgn * (n \div g), sgn * (d \div g)>>
FromInt(n) == <<n, 1>>
Zero == <<0, 1>>
One == <<1, 1>>
Tenths(k) == Frac(k, 10)

FAdd(x, y) == IF IsNaN(x) \/ IsNaN(y) THEN NaN
              ELSE Frac(x[1] * y[2] + y[1] * x[2], x[2] * y[2])
FSub(x, y) == IF IsNaN(x) \/ IsNaN(y) THEN NaN
              ELSE Frac(x[1] * y[2] - y[1] * x[2], x[2] * y[2])
FMul(x, y) == IF IsNaN(x) \/ IsNaN(y) THEN NaN
              ELSE Frac(x[1] * y[1], x[2] * y[2])
\* the divisions of the code have a NaN or a non-negative divisor
FDiv(x, y) == IF IsNaN(x) \/ IsNaN(y) THEN NaN
              ELSE Frac(x[1] * y[2], x[2] * y[1])
\* comparisons with NaN are false
FLt(x, y) == ~IsNaN(x) /\ ~IsNaN(y) /\ x[1] * y[2] < y[1] * x[2]
FLe(x, y) == ~IsNaN(x) /\ ~IsNaN(y) /\ x[1] * y[2] <= y[1] * x[2]
FGt(x, y) == FLt(y, x)
FGe(x, y) == FLe(y, x)
FEq(x, y) == ~IsNaN(x) /\ ~IsNaN(y) /\ x = y
\* f64::max and f64::min return the other operand when one is NaN
FMax(x, y) == IF IsNaN(x) THEN y ELSE IF IsNaN(y) THEN x ELSE IF FLt(x, y) THEN y ELSE x
FMin(x, y) == IF IsNaN(x) THEN y ELSE IF IsNaN(y) THEN x ELSE IF FLt(y, x) THEN y ELSE x

\* DateType::detect_confidence
DateDetectConfidence(value) == IF DateFromStr(value) = None THEN Zero ELSE One

\* DateType::is_definite_match
DateIsDefiniteMatch(value) == DateFromStr(value) # None

(***************************************************************************)
(* types/numeric.rs                                                        *)
(***************************************************************************)
Minus == Chr({"-"})
Comma3 == Cat(<<Chr({","}), D(3)>>)
Dot == Chr({"."})

\* static NUMERIC_PATTERNS
NUMERIC_PATTERNS == <<
    Cat(<<Opt(Minus), Plus(Chr(Digit))>>),                          \* ^-?\d+$
    Cat(<<Opt(Minus), DRange(1, 3), Star(Comma3)>>),                \* ^-?\d{1,3}(,\d{3})*$
    Cat(<<Opt(Minus), Star(Chr(Digit)), Dot, Plus(Chr(Digit))>>),   \* ^-?\d*\.\d+$
    Cat(<<Opt(Minus), DRange(1, 3), Star(Comma3), Dot, Plus(Chr(Digit))>>),
                                                                    \* ^-?\d{1,3}(,\d{3})*\.\d+$
    Cat(<<Opt(Minus), Plus(Chr(Digit)), Dot, Star(Chr(Digit))>>)    \* ^-?\d+\.\d*$
>>

\* patterns.iter().any(|pattern| pattern.is_match(value)), all patterns ^...$
AnyFullMatch(patterns, value) ==
    \E i \in 1..Len(patterns) : FullMatch(patterns[i], value)

\* NumericType::is_definite_match
NumericIsDefiniteMatch(value) ==
    LET clean_value == RemoveChar(Trim(value), " ")
    IN  IF clean_value = <<>> THEN FALSE
        ELSE AnyFullMatch(NUMERIC_PATTERNS, clean_value)

\* NumericType::detect_confidence
NumericDetectConfidence(value) ==
    IF NumericIsDefiniteMatch(value) THEN One ELSE Zero

(***************************************************************************)
(* types/currency.rs                                                       *)
(***************************************************************************)
USD == <<"U", "S", "D">>
Cents == Opt(Cat(<<Dot, D(2)>>))

\* static CURRENCY_PATTERNS
CURRENCY_PATTERNS == <<
    Cat(<<Chr({"$"}), Plus(Chr(Digit)), Star(Comma3), Cents>>),  \* ^\$\d+(?:,\d{3})*(?:\.\d{2})?$
    Cat(<<Plus(Chr(Digit)), Star(Comma3), Cents, Lit(USD)>>),    \* ^\d+(?:,\d{3})*(?:\.\d{2})?USD$
    Cat(<<Lit(USD), Plus(Chr(Digit)), Star(Comma3), Cents>>)     \* ^USD\d+(?:,\d{3})*(?:\.\d{2})?$
>>

\* CurrencyType::is_definite_match
CurrencyIsDefiniteMatch(value) ==
    LET clean_value == RemoveChar(value, " ")
    IN  AnyFullMatch(CURRENCY_PATTERNS, clean_value)

\* str::matches(c).count()
CountChar(s, c) == Len(SelectSeq(s, LAMBDA x : x = c))

\* CurrencyType::detect_confidence
CurrencyDetectConfidence(value) ==
    LET clean_value == RemoveChar(value, " ")
        decimals == SplitOn(clean_value, {"."})[2]
    IN  IF clean_value = <<>> THEN Zero
        ELSE IF CurrencyIsDefiniteMatch(clean_value) THEN One
        ELSE IF Head(clean_value) = "$" \/ Search(Lit(USD), clean_value) THEN Tenths(9)
        ELSE IF CountChar(clean_value, ".") = 1
                /\ Len(decimals) = 2 /\ AllDigits(decimals) THEN Tenths(5)
        ELSE Zero

(***************************************************************************)
(* types/email.rs                                                          *)
(***************************************************************************)
EmailLocalChars == AlphaNum \cup {".", "_", "%", "+", "-"}
\* [a-zA-Z0-9]([a-zA-Z0-9-]*[a-zA-Z0-9])?\.
EmailLabelDot == Cat(<<Chr(AlphaNum),
                       Opt(Cat(<<Star(Chr(AlphaNum \cup {"-"})), Chr(AlphaNum)>>)),
                       Dot>>)

\* static EMAIL_PATTERNS
EMAIL_PATTERNS == <<
    \* ^[a-zA-Z0-9][a-zA-Z0-9._%+-]*[a-zA-Z0-9]@([a-zA-Z0-9]([a-zA-Z0-9-]*[a-zA-Z0-9])?\.)+[a-zA-Z]{2,}$
    Cat(<<Chr(AlphaNum), Star(Chr(EmailLocalChars)), Chr(AlphaNum), Chr({"@"}),
          Plus(EmailLabelDot), Rep(Chr(Alpha), 2, Inf)>>),
    \* ^[a-zA-Z0-9][a-zA-Z0-9._%+-]{0,63}@(?:[a-zA-Z0-9](?:[a-zA-Z0-9-]*[a-zA-Z0-9])?\.){1,8}[a-zA-Z]{2,63}$
    Cat(<<Chr(AlphaNum), Rep(Chr(EmailLocalChars), 0, 63), Chr({"@"}),
          Rep(EmailLabelDot, 1, 8), Rep(Chr(Alpha), 2, 63)>>)
>>

\* EmailType::is_definite_match
EmailIsDefiniteMatch(value) ==
    LET clean_value == ToLowercase(Trim(value))
    IN  IF clean_value = <<>> THEN FALSE
        ELSE IF Search(Lit(<<".", ".">>), clean_value)
                \/ Head(clean_value) = "." \/ clean_value[Len(clean_value)] = "."
        THEN FALSE
        ELSE AnyFullMatch(EMAIL_PATTERNS, clean_value)

\* EmailType::detect_confidence
EmailDetectConfidence(value) ==
    LET clean_value == ToLowercase(Trim(value))
        parts == SplitOn(clean_value, {"@"})
        domain_parts == SplitOn(parts[2], {"."})
    IN  IF clean_value = <<>> THEN Zero
        ELSE IF EmailIsDefiniteMatch(clean_value) THEN One
        ELSE IF "@" \in Range(clean_value)
        THEN IF Len(parts) = 2 /\ parts[1] # <<>> /\ "." \in Range(parts[2])
                /\ (\A i \in 1..Len(domain_parts) : domain_parts[i] # <<>>)
                /\ Len(domain_parts) >= 2
             THEN Tenths(7)
             ELSE Tenths(3)
        ELSE Zero

(***************************************************************************)
(* types/phone.rs                                                          *)
(***************************************************************************)
PhoneSep == Opt(Chr({"-", ".", " "}))

\* static PHONE_PATTERNS
PHONE_PATTERNS == <<
    \* ^\+?\d{1,3}[-. ]?\d{3}[-. ]?\d{3}[-. ]?\d{4}$
    Cat(<<Opt(Chr({"+"})), DRange(1, 3), PhoneSep, D(3), PhoneSep, D(3), PhoneSep, D(4)>>),
    \* ^\(\d{3}\)\s*\d{3}[-. ]?\d{4}$
    Cat(<<Chr({"("}), D(3), Chr({")"}), Star(Chr(WhiteSpace)), D(3), PhoneSep, D(4)>>),
    \* ^\d{3}[-. ]?\d{3}[-. ]?\d{4}$
    Cat(<<D(3), PhoneSep, D(3), PhoneSep, D(4)>>)
>>

\* PhoneType::is_definite_match
PhoneIsDefiniteMatch(value) ==
    LET clean_value == RemoveChar(value, " ")
    IN  AnyFullMatch(PHONE_PATTERNS, clean_value)

\* PhoneType::detect_confidence
PhoneDetectConfidence(value) ==
    LET clean_value == RemoveChar(value, " ")
        digit_count == Len(SelectSeq(clean_value, LAMBDA c : c \in Digit))
        separator_chars == {"+", "-", ".", "(", ")", " "}
        other_chars == Len(SelectSeq(clean_value,
                           LAMBDA c : c \notin Digit /\ c \notin separator_chars))
    IN  IF clean_value = <<>> THEN Zero
        ELSE IF PhoneIsDefiniteMatch(clean_value) THEN One
        ELSE IF digit_count >= 10 /\ digit_count <= 15 /\ other_chars = 0 THEN Tenths(7)
        ELSE IF digit_count >= 10 /\ digit_count <= 15 THEN Tenths(3)
        ELSE Zero

(***************************************************************************)
(* types/categorical.rs: the single-value recognizer                       *)
(***************************************************************************)
AltCI(words) == Alt([i \in 1..Len(words) |-> LitCI(words[i])])

\* static CATEGORICAL_PATTERNS
CATEGORICAL_PATTERNS == <<
    \* ^(?i)(true|false|yes|no|y|n|t|f)$
    AltCI(<<<<"t", "r", "u", "e">>, <<"f", "a", "l", "s", "e">>, <<"y", "e", "s">>, <<"n", "o">>, <<"y">>, <<"n">>, <<"t">>, <<"f">>>>),
    \* ^(?i)(high|medium|low|critical|major|minor)$
    AltCI(<<<<"h", "i", "g", "h">>, <<"m", "e", "d", "i", "u", "m">>, <<"l", "o", "w">>, <<"c", "r", "i", "t", "i", "c", "a", "l">>, <<"m", "a", "j", "o", "r">>, <<"m", "i", "n", "o", "r">>>>),
    \* ^(?i)(active|inactive|pending|completed|cancelled|failed|success)$
    AltCI(<<<<"a", "c", "t", "i", "v", "e">>, <<"i", "n", "a", "c", "t", "i", "v", "e">>, <<"p", "e", "n", "d", "i", "n", "g">>, <<"c", "o", "m", "p", "l", "e", "t", "e", "d">>, <<"c", "a", "n", "c", "e", "l", "l", "e", "d">>, <<"f", "a", "i", "l", "e", "d">>, <<"s", "u", "c", "c", "e", "s", "s">>>>),
    \* ^(?i)(beginner|intermediate|advanced|expert)$
    AltCI(<<<<"b", "e", "g", "i", "n", "n", "e", "r">>, <<"i", "n", "t", "e", "r", "m", "e", "d", "i", "a", "t", "e">>, <<"a", "d", "v", "a", "n", "c", "e", "d">>, <<"e", "x", "p", "e", "r", "t">>>>)
>>

\* CategoricalType::is_definite_match
CategoricalIsDefiniteMatch(value) ==
    LET clean_value == Trim(value)
    IN  IF clean_value = <<>> THEN FALSE
        ELSE AnyFullMatch(CATEGORICAL_PATTERNS, clean_value)

\* CategoricalType::detect_confidence
CategoricalDetectConfidence(value) ==
    IF Trim(value) = <<>> THEN Zero
    ELSE IF CategoricalIsDefiniteMatch(value) THEN One
    ELSE IF AnyFullMatch(CATEGORICAL_PATTERNS, value) THEN Tenths(9)
    ELSE Tenths(3)

(***************************************************************************)
(* types/type_scoring.rs                                                   *)
(***************************************************************************)
\* values.iter().map(|s| s.trim()).filter(|s| !s.is_empty()).collect()
NonEmptyValues(values) ==
    SelectSeq([i \in 1..Len(values) |-> Trim(values[i])], LAMBDA v : v # <<>>)

\* Iterator::sum::<f64>(); the sum is exact, so it is taken by halves
RECURSIVE SumSeq(_)
SumSeq(xs) ==
    IF xs = <<>> THEN Zero
    ELSE IF Len(xs) = 1 THEN FAdd(Zero, xs[1])
    ELSE FAdd(SumSeq(SubSeq(xs, 1, Len(xs) \div 2)),
              SumSeq(SubSeq(xs, Len(xs) \div 2 + 1, Len(xs))))

\* one field of the struct literal in from_column: 1.0 when all the values
\* have confidence 1.0, else the sum of the confidences over their number
ColumnScore(confs) ==
    IF \A i \in 1..Len(confs) : FEq(confs[i], One) THEN One
    ELSE FDiv(SumSeq(confs), FromInt(Len(confs)))

\* TypeScores::default()
TypeScoresDefault ==
    [numeric |-> Zero, currency |-> Zero, date |-> Zero, email |-> Zero,
     phone |-> Zero, categorical |-> Zero]

\* the confidences a recognizer gives the values of a column
Confidences(DetectConfidence(_), vs) == [i \in 1..Len(vs) |-> DetectConfidence(vs[i])]

\* from_column with the nulls left in the divisor
FromColumn_NullsCounted(values) ==
    LET Mean(confs) == IF \A i \in 1..Len(confs) : FEq(confs[i], One) THEN One
                       ELSE FDiv(SumSeq(confs), FromInt(Len(values)))
        Scores(non_empty_values) ==
            IF non_empty_values = <<>> THEN TypeScoresDefault
            ELSE [numeric |-> Eval(Confidences(NumericDetectConfidence, non_empty_values), Mean),
                  currency |-> Eval(Confidences(CurrencyDetectConfidence, non_empty_values), Mean),
                  date |-> Eval(Confidences(DateDetectConfidence, non_empty_values), Mean),
                  email |-> Eval(Confidences(EmailDetectConfidence, non_empty_values), Mean),
                  phone |-> Eval(Confidences(PhoneDetectConfidence, non_empty_values), Mean),
                  categorical |-> Eval(Confidences(CategoricalDetectConfidence, non_empty_values), Mean)]
    IN  Eval(NonEmptyValues(values), Scores)

\* TypeScores::from_column
FromColumn(values) ==
    LET Scores(non_empty_values) ==
            IF non_empty_values = <<>> THEN TypeScoresDefault
            ELSE [numeric |-> Eval(Confidences(NumericDetectConfidence, non_empty_values), ColumnScore),
                  currency |-> Eval(Confidences(CurrencyDetectConfidence, non_empty_values), ColumnScore),
                  date |-> Eval(Confidences(DateDetectConfidence, non_empty_values), ColumnScore),
                  email |-> Eval(Confidences(EmailDetectConfidence, non_empty_values), ColumnScore),
                  phone |-> Eval(Confidences(PhoneDetectConfidence, non_empty_values), ColumnScore),
                  categorical |-> Eval(Confidences(CategoricalDetectConfidence, non_empty_values), ColumnScore)]
    IN  Eval(NonEmptyValues(values), Scores)

\* the array type_scores of best_type
TypeScoresArray(scores) ==
    <<[data_type |-> "Integer", confidence |-> scores.numeric],
      [data_type |-> "Currency", confidence |-> scores.currency],
      [data_type |-> "Date", confidence |-> scores.date],
      [data_type |-> "Email", confidence |-> scores.email],
      [data_type |-> "Phone", confidence |-> scores.phone],
      [data_type |-> "Categorical", confidence |-> scores.categorical]>>

\* (confidence - 1.0).abs() < f64::EPSILON: on the model's exact scores, which
\* are never within 2^-52 of another value, this is equality with 1.0
IsPerfect(confidence) == FEq(confidence, One)

\* best_type falling back to the type with the highest score when none is
\* perfect, as the earlier revision of the scorer did
BestType_HighestMean(scores) ==
    LET type_scores == TypeScoresArray(scores)
        perfect == {i \in 1..Len(type_scores) : IsPerfect(type_scores[i].confidence)}
        top == CHOOSE i \in 1..Len(type_scores) :
                   \A j \in 1..Len(type_scores) :
                       FGe(type_scores[i].confidence, type_scores[j].confidence)
    IN  IF perfect # {}
        THEN type_scores[CHOOSE i \in perfect : \A j \in perfect : i <= j]
        ELSE IF FGt(type_scores[top].confidence, Zero) THEN type_scores[top]
        ELSE [data_type |-> "Text", confidence |-> Zero]

\* TypeScores::best_type
BestType(scores) ==
    LET type_scores == TypeScoresArray(scores)
        perfect == {i \in 1..Len(type_scores) : IsPerfect(type_scores[i].confidence)}
    IN  IF perfect # {}
        THEN type_scores[CHOOSE i \in perfect : \A j \in perfect : i <= j]
        ELSE [data_type |-> "Text", confidence |-> Zero]

(***************************************************************************)
(* csv.rs                                                                  *)
(***************************************************************************)
Some(x) == [none |-> FALSE, some |-> x]
UnwrapOr(opt, default) == IF opt.none THEN default ELSE opt.some

Ok == [ok |-> TRUE]
Err(msg) == [ok |-> FALSE, error |-> msg]

\* the sum of the byte lengths of a set of strings
RECURSIVE SumLen(_)
SumLen(strs) ==
    IF strs = {} THEN 0
    ELSE LET x == CHOOSE y \in strs : TRUE IN Len(x) + SumLen(strs \ {x})

\* analyze_potential_categorical_data with the unique-ratio bound included
AnalyzePotentialCategoricalData_RatioInclusive(values) ==
    IF Len(values) < 20 THEN None
    ELSE LET trimmed == NonEmptyValues(values)
             non_empty_count == Len(trimmed)
             keys == Range(trimmed)
             value_counts == [k \in keys |-> Cardinality({i \in 1..Len(trimmed) : trimmed[i] = k})]
             unique_count == Cardinality(keys)
             unique_ratio == FDiv(FromInt(unique_count), FromInt(non_empty_count))
             avg_length == FDiv(FromInt(SumLen(keys)), FromInt(unique_count))
             frequent_values == Cardinality({k \in keys : value_counts[k] >= 3})
             frequency_ratio == FDiv(FromInt(frequent_values), FromInt(unique_count))
         IN  IF /\ FLe(unique_ratio, Frac(5, 100))
                /\ FLt(avg_length, FromInt(50))
                /\ FGt(frequency_ratio, Tenths(7))
             THEN Some("Categorical")
             ELSE None

\* CSV::analyze_potential_categorical_data
AnalyzePotentialCategoricalData(values) ==
    IF Len(values) < 20 THEN None
    ELSE LET trimmed == NonEmptyValues(values)
             non_empty_count == Len(trimmed)
             \* the HashMap value_counts: its keys and the count of each
             keys == Range(trimmed)
             value_counts == [k \in keys |-> Cardinality({i \in 1..Len(trimmed) : trimmed[i] = k})]
             unique_count == Cardinality(keys)
             unique_ratio == FDiv(FromInt(unique_count), FromInt(non_empty_count))
             avg_length == FDiv(FromInt(SumLen(keys)), FromInt(unique_count))
             min_frequency == 3
             frequent_values == Cardinality({k \in keys : value_counts[k] >= min_frequency})
             frequency_ratio == FDiv(FromInt(frequent_values), FromInt(unique_count))
         IN  IF /\ FLt(unique_ratio, Frac(5, 100))
                /\ FLt(avg_length, FromInt(50))
                /\ FGt(frequency_ratio, Tenths(7))
             THEN Some("Categorical")
             ELSE None

\* to_value(&metadata): the JS object a ColumnMetadata serializes to
ToValue(metadata) ==
    [js |-> "object", name |-> metadata.name, data_type |-> metadata.data_type,
     confidence |-> metadata.confidence]

\* from_value::<ColumnMetadata>(js_metadata)
FromValue(js_metadata) ==
    IF js_metadata.js = "object"
    THEN Some([name |-> js_metadata.name, data_type |-> js_metadata.data_type,
               confidence |-> js_metadata.confidence])
    ELSE None

\* set_column_metadata storing in the last column when the index is too large
SetColumnMetadata_Clamped(columns, index, js_metadata) ==
    LET metadata == FromValue(js_metadata)
    IN  IF metadata.none
        THEN [columns |-> columns, result |-> Err("Failed to deserialize metadata")]
        ELSE IF columns # <<>>
        THEN [columns |-> [columns EXCEPT ![IF index + 1 \in 1..Len(columns) THEN index + 1
                                            ELSE Len(columns)].metadata = Some(metadata.some)],
              result |-> Ok]
        ELSE [columns |-> columns, result |-> Err("Column index out of bounds")]

\* CSV::set_column_metadata: the columns after the call, and its Result
SetColumnMetadata(columns, index, js_metadata) ==
    LET metadata == FromValue(js_metadata)
    IN  IF metadata.none
        THEN [columns |-> columns, result |-> Err("Failed to deserialize metadata")]
        ELSE IF index + 1 \in 1..Len(columns)
        THEN [columns |-> [columns EXCEPT ![index + 1].metadata = Some(metadata.some)],
              result |-> Ok]
        ELSE [columns |-> columns, result |-> Err("Column index out of bounds")]

\* CSV::get_column_metadata: its Result, the JsValue of the metadata or an error
GetColumnMetadata_IndexFromOne(columns, index) ==
    IF index \in 1..Len(columns) /\ ~columns[index].metadata.none
    THEN [ok |-> TRUE, value |-> ToValue(columns[index].metadata.some)]
    ELSE Err("No metadata found for column")

GetColumnMetadata(columns, index) ==
    IF index + 1 \in 1..Len(columns) /\ ~columns[index + 1].metadata.none
    THEN [ok |-> TRUE, value |-> ToValue(columns[index + 1].metadata.some)]
    ELSE Err("No metadata found for column")

\* the body of the loop of infer_column_types for column i (counted from 0)
InferColumn(columns, i) ==
    LET header == columns[i + 1].header
        values == columns[i + 1].values
        Store(best) ==
            LET initial_type == best.data_type
                confidence == best.confidence
                final_type == IF initial_type = "Text"
                              THEN UnwrapOr(AnalyzePotentialCategoricalData(values), "Text")
                              ELSE initial_type
                metadata == [name |-> header, data_type |-> final_type,
                             confidence |-> confidence]
            IN  Eval(ToValue(metadata), LAMBDA js_metadata : SetColumnMetadata(columns, i, js_metadata))
    IN  Eval(FromColumn(values), LAMBDA scores : Eval(BestType(scores), Store))

\* CSV::infer_column_types: for i in 0..self.column_count(), leaving at the
\* first error (the ? operator)
RECURSIVE InferFrom(_, _)
InferFrom(columns, i) ==
    IF i >= Len(columns) THEN [columns |-> columns, result |-> Ok]
    ELSE LET Continue(step) == IF step.result.ok THEN InferFrom(step.columns, i + 1) ELSE step
         IN  Eval(InferColumn(columns, i), Continue)

InferColumnTypes(columns) == InferFrom(columns, 0)

(***************************************************************************)
(* types/categorical.rs: the column analysis                               *)
(***************************************************************************)
MAX_CARDINALITY_RATIO == Frac(5, 100)
MIN_SAMPLE_SIZE == 20
MIN_CATEGORY_FREQUENCY == 3
MIN_NON_EMPTY_RATIO == Tenths(5)

\* static CATEGORICAL_NAME_PATTERNS: (?i)type, (?i)category, ... without anchors
CATEGORICAL_NAME_PATTERNS == <<
    LitCI(<<"t", "y", "p", "e">>),
    LitCI(<<"c", "a", "t", "e", "g", "o", "r", "y">>),
    LitCI(<<"s", "t", "a", "t", "u", "s">>),
    LitCI(<<"l", "e", "v", "e", "l">>),
    LitCI(<<"g", "r", "a", "d", "e">>),
    LitCI(<<"r", "a", "t", "i", "n", "g">>),
    LitCI(<<"p", "r", "i", "o", "r", "i", "t", "y">>)>>

\* the largest k with k * k <= n, searched between lo and hi
RECURSIVE ISqrtIn(_, _, _)
ISqrtIn(n, lo, hi) ==
    IF lo >= hi THEN lo
    ELSE LET mid == (lo + hi + 1) \div 2
         IN  IF mid * mid <= n THEN ISqrtIn(n, mid, hi) ELSE ISqrtIn(n, lo, mid - 1)

\* f64::sqrt, rounded down to a multiple of 1/100 (exact on the squares of
\* such multiples, 0 among them); the square root of a negative number is NaN
FSqrt(x) ==
    IF IsNaN(x) \/ x[1] < 0 THEN NaN
    ELSE Frac(ISqrtIn((x[1] * 10000) \div x[2], 0, 40000), 100)

\* values.iter().filter(|v| !v.trim().is_empty()).collect()
FilterNonEmpty(values) == SelectSeq(values, LAMBDA v : Trim(v) # <<>>)

\* the HashMap value_counts of a sequence: each distinct value with its count
ValueCounts(vs) == [k \in Range(vs) |-> Cardinality({i \in 1..Len(vs) : vs[i] = k})]

\* the number of entries of value_counts whose count is >= MIN_CATEGORY_FREQUENCY
FrequentCount(value_counts) ==
    Cardinality({k \in DOMAIN value_counts : value_counts[k] >= MIN_CATEGORY_FREQUENCY})

\* lengths.iter().sum::<usize>()
RECURSIVE SumLengthsIn(_, _, _)
SumLengthsIn(vs, lo, hi) ==
    IF lo > hi THEN 0
    ELSE IF lo = hi THEN Len(vs[lo])
    ELSE SumLengthsIn(vs, lo, (lo + hi) \div 2) + SumLengthsIn(vs, (lo + hi) \div 2 + 1, hi)
\* the sum of the lengths of the first k values
SumLengths(vs, k) == SumLengthsIn(vs, 1, k)

\* CategoricalType::cardinality_ratio_score
CardinalityRatioScore(values) ==
    LET Score(non_empty_values) ==
            LET non_empty_ratio == FDiv(FromInt(Len(non_empty_values)), FromInt(Len(values)))
                total_values == FromInt(Len(non_empty_values))
                unique_count == FromInt(Cardinality(Range(non_empty_values)))
                ratio == FDiv(unique_count, total_values)
            IN  IF non_empty_values = <<>> THEN Zero
                ELSE IF FLt(non_empty_ratio, MIN_NON_EMPTY_RATIO) THEN Zero
                ELSE IF FLe(ratio, MAX_CARDINALITY_RATIO) THEN One
                ELSE IF FLe(ratio, FMul(MAX_CARDINALITY_RATIO, FromInt(2))) THEN Tenths(5)
                ELSE Zero
    IN  Eval(FilterNonEmpty(values), Score)

\* CategoricalType::value_distribution_score
ValueDistributionScore(values) ==
    LET Score(non_empty_values) ==
            LET value_counts == ValueCounts(non_empty_values)
                avg_length == FDiv(FromInt(SumLengths(non_empty_values, Len(non_empty_values))),
                                   FromInt(Len(non_empty_values)))
                length_penalty == IF FGt(avg_length, FromInt(15)) THEN Tenths(5) ELSE One
                frequent_values == FrequentCount(value_counts)
            IN  IF non_empty_values = <<>> THEN Zero
                ELSE FMin(FMul(FDiv(FromInt(frequent_values),
                                    FromInt(Cardinality(DOMAIN value_counts))),
                               length_penalty), One)
    IN  Eval(FilterNonEmpty(values), Score)

\* CategoricalType::value_frequency_score
ValueFrequencyScore(values) ==
    LET Score(value_counts) ==
            FMin(FDiv(FromInt(FrequentCount(value_counts)),
                      FromInt(Cardinality(DOMAIN value_counts))), One)
    IN  Eval(ValueCounts(values), Score)

\* CategoricalType::pattern_match_score
PatternMatchScore(values) ==
    LET pattern_matches ==
            Cardinality({i \in 1..Len(values) : AnyFullMatch(CATEGORICAL_PATTERNS, values[i])})
    IN  FMin(FDiv(FromInt(pattern_matches), FromInt(Len(values))), One)

\* length_consistency_score without the clamp of 1 - cv / 2 to [0, 1]
LengthConsistencyScore_Unclamped(values) ==
    LET n == Len(values)
        mean_length == FDiv(FromInt(SumLengths(values, n)), FromInt(n))
        SquaredDiff(x) == FMul(FSub(FromInt(x), mean_length), FSub(FromInt(x), mean_length))
        Score(squares) ==
            LET variance == FDiv(SumSeq(squares), FromInt(n))
                std_dev == FSqrt(variance)
                cv == FDiv(std_dev, mean_length)
            IN  FSub(One, FDiv(cv, FromInt(2)))
    IN  IF n = 0 THEN Zero
        ELSE Eval([i \in 1..n |-> SquaredDiff(Len(values[i]))], Score)

\* CategoricalType::length_consistency_score
LengthConsistencyScore(values) ==
    LET n == Len(values)
        mean_length == FDiv(FromInt(SumLengths(values, n)), FromInt(n))
        SquaredDiff(x) == FMul(FSub(FromInt(x), mean_length), FSub(FromInt(x), mean_length))
        Score(squares) ==
            LET variance == FDiv(SumSeq(squares), FromInt(n))
                std_dev == FSqrt(variance)
                cv == FDiv(std_dev, mean_length)
            IN  FMin(FMax(FSub(One, FDiv(cv, FromInt(2))), Zero), One)
    IN  IF n = 0 THEN Zero
        ELSE Eval([i \in 1..n |-> SquaredDiff(Len(values[i]))], Score)

\* CategoricalType::column_name_score
ColumnNameScore(column_name) ==
    IF \E i \in 1..Len(CATEGORICAL_NAME_PATTERNS) : Search(CATEGORICAL_NAME_PATTERNS[i], column_name)
    THEN One ELSE Zero

\* CategoricalType::calculate_categorical_score
CalculateCategoricalScore(values, column_name) ==
    LET s1 == FAdd(Zero, FMul(Tenths(4), CardinalityRatioScore(values)))
        s2 == FAdd(s1, FMul(Tenths(2), ValueDistributionScore(values)))
        s3 == FAdd(s2, FMul(Tenths(1), ValueFrequencyScore(values)))
        s4 == FAdd(s3, FMul(Tenths(1), PatternMatchScore(values)))
        s5 == FAdd(s4, FMul(Tenths(1), LengthConsistencyScore(values)))
        s6 == FAdd(s5, FMul(Tenths(1), ColumnNameScore(column_name)))
    IN  s6

\* CategoricalType::analyze_column
AnalyzeColumn(values, column_name) ==
    IF Len(values) < MIN_SAMPLE_SIZE THEN [is_categorical |-> FALSE, score |-> Zero]
    ELSE LET Answer(score) == [is_categorical |-> FGt(score, Tenths(7)), score |-> score]
         IN  Eval(CalculateCategoricalScore(values, column_name), Answer)

(***************************************************************************)
(* types.rs: CSV::analyze_single_column and what it calls.  Of the         *)
(* ColumnMetadata it builds, the model keeps name, data_type, confidence,  *)
(* row_count, null_count, distinct_count, numeric_stats, text_stats and    *)
(* anomalies (each Anomaly without its suggestion).                        *)
(***************************************************************************)
Space == Star(Chr(WhiteSpace))
Cents2 == Opt(Cat(<<Dot, D(2)>>))
Grouped == Cat(<<DRange(1, 3), Star(Comma3)>>)
CurrencyCode == Alt(<<Lit(<<"U", "S", "D">>), Lit(<<"E", "U", "R">>), Lit(<<"G", "B", "P">>)>>)

\* static TYPE_PATTERNS: a HashMap from DataType to its patterns
TYPE_PATTERNS ==
    [Integer |-> <<
        Cat(<<Opt(Minus), Plus(Chr(Digit))>>),                      \* ^-?\d+$
        Cat(<<Opt(Minus), Grouped>>)>>,                             \* ^-?\d{1,3}(,\d{3})*$
     Decimal |-> <<
        Cat(<<Opt(Minus), Star(Chr(Digit)), Dot, Plus(Chr(Digit))>>),  \* ^-?\d*\.\d+$
        Cat(<<Opt(Minus), Grouped, Dot, Plus(Chr(Digit))>>),        \* ^-?\d{1,3}(,\d{3})*\.\d+$
        Cat(<<Opt(Minus), Plus(Chr(Digit)), Dot, Star(Chr(Digit))>>)>>,  \* ^-?\d+\.\d*$
     Currency |-> <<
        Cat(<<Chr({"$"}), Space, Grouped, Cents2>>),                \* ^\$\s*\d{1,3}(,\d{3})*(\.\d{2})?$
        Cat(<<Chr({"€"}), Space, Grouped, Cents2>>),
        Cat(<<Chr({"£"}), Space, Grouped, Cents2>>),
        Cat(<<Chr({"$", "€", "£"}), Plus(Chr(Digit)), Cents2>>),    \* ^[$€£]\d+(\.\d{2})?$
        Cat(<<Grouped, Cents2, Space, CurrencyCode>>),              \* ^\d{1,3}(,\d{3})*(\.\d{2})?\s*(USD|EUR|GBP)$
        Cat(<<Plus(Chr(Digit)), Cents2, Space, CurrencyCode>>)>>,   \* ^\d+(\.\d{2})?\s*(USD|EUR|GBP)$
     Date |-> <<
        Cat(<<D(4), Chr({"-"}), D(2), Chr({"-"}), D(2)>>),          \* ^\d{4}-\d{2}-\d{2}$
        Cat(<<DRange(1, 2), Chr({"/"}), DRange(1, 2), Chr({"/"}), D(4)>>),
        Cat(<<DRange(1, 2), Chr({"-"}), DRange(1, 2), Chr({"-"}), D(4)>>),
        Cat(<<D(4), Chr({"/"}), D(2), Chr({"/"}), D(2)>>)>>,
     Email |-> <<
        \* ^[a-zA-Z0-9._%+-]+@[a-zA-Z0-9.-]+\.[a-zA-Z]{2,}$
        Cat(<<Plus(Chr(AlphaNum \cup {".", "_", "%", "+", "-"})), Chr({"@"}),
              Plus(Chr(AlphaNum \cup {".", "-"})), Dot, Rep(Chr(Alpha), 2, Inf)>>)>>,
     Phone |-> <<
        \* ^\+?\d{1,3}[-. ]?\d{3}[-. ]?\d{3}[-. ]?\d{4}$
        Cat(<<Opt(Chr({"+"})), DRange(1, 3), PhoneSep, D(3), PhoneSep, D(3), PhoneSep, D(4)>>),
        \* ^\(\d{3}\)\s*\d{3}[-. ]?\d{4}$
        Cat(<<Chr({"("}), D(3), Chr({")"}), Space, D(3), PhoneSep, D(4)>>),
        \* ^\d{3}[-. ]?\d{3}[-. ]?\d{4}$
        Cat(<<D(3), PhoneSep, D(3), PhoneSep, D(4)>>)>>]

\* patterns.iter().any(|pattern| pattern.is_match(value)) for one key of the map
MatchesType(data_type, value) == AnyFullMatch(TYPE_PATTERNS[data_type], value)

\* CSV::could_be_categorical
CouldBeCategorical(value) ==
    ToLowercase(value) \in
        {<<"y", "e", "s">>, <<"n", "o">>, <<"t", "r", "u", "e">>, <<"f", "a", "l", "s", "e">>,
         <<"h", "i", "g", "h">>, <<"m", "e", "d", "i", "u", "m">>, <<"l", "o", "w">>,
         <<"1">>, <<"2">>, <<"3">>, <<"4">>, <<"5">>,
         <<"a", "c", "t", "i", "v", "e">>, <<"i", "n", "a", "c", "t", "i", "v", "e">>,
         <<"p", "e", "n", "d", "i", "n", "g">>, <<"c", "o", "m", "p", "l", "e", "t", "e", "d">>,
         <<"c", "a", "n", "c", "e", "l", "l", "e", "d">>}

\* CSV::is_likely_categorical
IsLikelyCategorical(values) ==
    LET total_values == Len(values)
        unique_ratio == FDiv(FromInt(Cardinality(Range(values))), FromInt(total_values))
    IN  IF total_values < 2 THEN FALSE
        ELSE FLt(unique_ratio, Frac(5, 100)) /\ total_values >= 20

\* CSV::calculate_categorical_confidence
CalculateCategoricalConfidence(values) ==
    LET total_values == FromInt(Len(values))
        unique_ratio == FDiv(FromInt(Cardinality(Range(values))), total_values)
        cardinality_score == FMax(FSub(One, unique_ratio), Zero)
        categorical_matches ==
            FromInt(Cardinality({i \in 1..Len(values) : CouldBeCategorical(values[i])}))
        consistency_score == FDiv(categorical_matches, total_values)
    IN  FAdd(FMul(Tenths(7), cardinality_score), FMul(Tenths(3), consistency_score))

\* the array type_ordering of infer_type
TypeOrdering ==
    <<"Currency", "Phone", "Email", "Date", "Decimal", "Integer", "Categorical", "Text">>

\* the first pass of infer_type on one value: the type whose counter it bumps
FirstPassType(raw) ==
    LET value == Trim(raw)
    IN  IF MatchesType("Currency", value) THEN "Currency"
        ELSE IF MatchesType("Phone", value) THEN "Phone"
        ELSE IF MatchesType("Email", value) THEN "Email"
        ELSE IF MatchesType("Date", value) THEN "Date"
        ELSE IF MatchesType("Decimal", value) THEN "Decimal"
        ELSE IF MatchesType("Integer", value) THEN "Integer"
        ELSE IF CouldBeCategorical(value) THEN "Categorical"
        ELSE "Text"

\* CSV::infer_type
InferType(values) ==
    LET Decide(non_empty_values) ==
            LET total_values == Len(non_empty_values)
                Pick(types) ==
                    LET \* the HashMap matches: the types seen, each with its count
                        matches == [t \in Range(types) |->
                                       Cardinality({i \in 1..Len(types) : types[i] = t})]
                        Conf(t) == FDiv(FromInt(matches[t]), FromInt(total_values))
                        high == {k \in 1..Len(TypeOrdering) :
                                    /\ TypeOrdering[k] \in DOMAIN matches
                                    /\ FGt(Conf(TypeOrdering[k]), Tenths(8))}
                        Priority(t) == Len(TypeOrdering)
                                       - ((CHOOSE k \in 1..Len(TypeOrdering) : TypeOrdering[k] = t) - 1)
                        best_type == CHOOSE t \in DOMAIN matches :
                                        \A u \in DOMAIN matches :
                                            \/ matches[u] < matches[t]
                                            \/ matches[u] = matches[t] /\ Priority(u) <= Priority(t)
                    IN  IF high # {}
                        THEN LET data_type == TypeOrdering[CHOOSE k \in high : \A j \in high : k <= j]
                             IN  [data_type |-> data_type, confidence |-> Conf(data_type)]
                        ELSE [data_type |-> best_type, confidence |-> Conf(best_type)]
                Special(confidence) ==
                    IF FGt(confidence, Tenths(8))
                    THEN [data_type |-> "Categorical", confidence |-> confidence]
                    ELSE Eval([i \in 1..total_values |-> FirstPassType(non_empty_values[i])], Pick)
            IN  IF non_empty_values = <<>> THEN [data_type |-> "Text", confidence |-> One]
                ELSE IF IsLikelyCategorical(non_empty_values)
                THEN Eval(CalculateCategoricalConfidence(non_empty_values), Special)
                ELSE Eval([i \in 1..total_values |-> FirstPassType(non_empty_values[i])], Pick)
    IN  Eval(FilterNonEmpty(values), Decide)

\* 10^k
RECURSIVE Pow10(_)
Pow10(k) == IF k = 0 THEN 1 ELSE 10 * Pow10(k - 1)

\* str::parse::<f64> on an optional sign and either digits with at most one
\* point or the word nan in any case (exponents and the words inf and infinity
\* are not among the cells of the model): Some(number) or None
ParseF64(s) ==
    LET signed == s # <<>> /\ s[1] \in {"+", "-"}
        body == IF signed THEN Tail(s) ELSE s
        parts == SplitOn(body, {"."})
        whole == parts[1]
        fraction == IF Len(parts) = 2 THEN parts[2] ELSE <<>>
        magnitude == Frac(ParseNat(whole) * Pow10(Len(fraction)) + ParseNat(fraction),
                          Pow10(Len(fraction)))
    IN  IF ToLowercase(body) = <<"n", "a", "n">> THEN Some(NaN)
        ELSE IF /\ Len(parts) <= 2
                /\ AllDigits(whole) /\ AllDigits(fraction)
                /\ whole \o fraction # <<>>
        THEN Some(IF signed /\ s[1] = "-" THEN FSub(Zero, magnitude) ELSE magnitude)
        ELSE None

\* str::trim_start_matches(['$', '€', '£'])
RECURSIVE TrimStartCurrency(_)
TrimStartCurrency(s) ==
    IF s # <<>> /\ Head(s) \in {"$", "€", "£"} THEN TrimStartCurrency(Tail(s)) ELSE s

\* the closure of filter_map in calculate_numeric_stats
CleanedNumber(v) ==
    LET cleaned == RemoveChar(Trim(v), ",")
    IN  IF cleaned = <<>> THEN None ELSE ParseF64(Trim(TrimStartCurrency(cleaned)))

\* sort_by(|a, b| a.partial_cmp(b).unwrap_or(Equal)) on a short slice, an
\* insertion sort: x, the next element, moves left past the elements it is
\* less than; a NaN compares Equal, so it neither moves nor is passed
RECURSIVE InsertSorted(_, _)
InsertSorted(x, sorted) ==
    IF sorted = <<>> THEN <<x>>
    ELSE IF FLt(x, sorted[Len(sorted)])
    THEN InsertSorted(x, SubSeq(sorted, 1, Len(sorted) - 1)) \o <<sorted[Len(sorted)]>>
    ELSE sorted \o <<x>>

RECURSIVE SortNumbers(_, _)
SortNumbers(numbers, k) ==
    IF k = 0 THEN <<>> ELSE InsertSorted(numbers[k], SortNumbers(numbers, k - 1))

\* CSV::calculate_numeric_stats
CalculateNumericStats(values) ==
    LET Stats(numbers) ==
            LET len == Len(numbers)
                Ordered(sorted) ==
                    LET mean == FDiv(SumSeq(numbers), FromInt(len))
                        median == sorted[(len \div 2) + 1]
                        quartiles == <<sorted[(len \div 4) + 1], median,
                                       sorted[((3 * len) \div 4) + 1]>>
                        squares == [i \in 1..len |->
                                       FMul(FSub(numbers[i], mean), FSub(numbers[i], mean))]
                        variance == FDiv(SumSeq(squares), FromInt(len - 1))
                        std_dev == FSqrt(variance)
                    IN  Some([min |-> sorted[1], max |-> sorted[len], mean |-> mean,
                              median |-> median, std_dev |-> std_dev, quartiles |-> quartiles])
            IN  IF numbers = <<>> THEN None
                ELSE Eval(SortNumbers(numbers, len), Ordered)
        parsed == SelectSeq([i \in 1..Len(values) |-> CleanedNumber(values[i])],
                            LAMBDA o : ~o.none)
    IN  Eval([i \in 1..Len(parsed) |-> parsed[i].some], Stats)

\* the printable ASCII characters in byte order (without the double quote, the
\* backslash and the backquote), for str::cmp
AsciiChars ==
    <<" ", "!", "#", "$", "%", "&", "'", "(", ")", "*", "+", ",", "-", ".", "/",
      "0", "1", "2", "3", "4", "5", "6", "7", "8", "9", ":", ";", "<", "=", ">", "?", "@",
      "A", "B", "C", "D", "E", "F", "G", "H", "I", "J", "K", "L", "M",
      "N", "O", "P", "Q", "R", "S", "T", "U", "V", "W", "X", "Y", "Z",
      "[", "]", "^", "_",
      "a", "b", "c", "d", "e", "f", "g", "h", "i", "j", "k", "l", "m",
      "n", "o", "p", "q", "r", "s", "t", "u", "v", "w", "x", "y", "z",
      "{", "|", "}", "~">>
ByteOf(c) == CHOOSE i \in 1..Len(AsciiChars) : AsciiChars[i] = c

\* a.cmp(&b) == Less on strings
RECURSIVE StrLess(_, _)
StrLess(a, b) ==
    IF b = <<>> THEN FALSE
    ELSE IF a = <<>> THEN TRUE
    ELSE IF Head(a) = Head(b) THEN StrLess(Tail(a), Tail(b))
    ELSE ByteOf(Head(a)) < ByteOf(Head(b))

\* most_common.sort_by(count descending, then value ascending), as a sequence
RECURSIVE SortByFrequency(_)
SortByFrequency(value_counts) ==
    IF DOMAIN value_counts = {} THEN <<>>
    ELSE LET first == CHOOSE k \in DOMAIN value_counts :
                          \A j \in DOMAIN value_counts \ {k} :
                              \/ value_counts[j] < value_counts[k]
                              \/ value_counts[j] = value_counts[k] /\ StrLess(k, j)
         IN  <<<<first, value_counts[first]>>>>
             \o SortByFrequency([k \in DOMAIN value_counts \ {first} |-> value_counts[k]])

\* Vec::truncate
Truncate(xs, n) == IF Len(xs) <= n THEN xs ELSE SubSeq(xs, 1, n)

\* CSV::calculate_text_stats
CalculateTextStats(values) ==
    LET Stats(non_empty_values) ==
            LET n == Len(non_empty_values)
                lengths == {Len(non_empty_values[i]) : i \in 1..n}
                min_length == CHOOSE l \in lengths : \A m \in lengths : l <= m
                max_length == CHOOSE l \in lengths : \A m \in lengths : l >= m
                avg_length == FDiv(FromInt(SumLengths(non_empty_values, n)), FromInt(n))
                most_common == Truncate(SortByFrequency(ValueCounts(non_empty_values)), 5)
            IN  IF non_empty_values = <<>> THEN None
                ELSE Some([min_length |-> min_length, max_length |-> max_length,
                           avg_length |-> avg_length, most_common |-> most_common])
    IN  Eval(NonEmptyValues(values), Stats)

\* CSV::looks_like_number
LooksLikeNumber(value) == ~ParseF64(RemoveChar(value, ",")).none

\* CSV::looks_like_date
LooksLikeDate(value) ==
    LET numbers == SplitOn(value, {"/", "-", "."})
    IN  Len(numbers) = 3 /\ \A i \in 1..3 : ParseU32Ok(numbers[i])

\* the orders in which a HashMap with these keys can be iterated
RECURSIVE Orders(_)
Orders(keys) ==
    IF keys = {} THEN {<<>>}
    ELSE UNION {{<<k>> \o rest : rest \in Orders(keys \ {k})} : k \in keys}

\* the orders in which TYPE_PATTERNS.iter() can visit the static map; the order
\* is the same for every call in one process
TypeOrders == Orders(DOMAIN TYPE_PATTERNS)

\* the part of detect_single_value_type that does not depend on the order of
\* the map: the keys one of whose patterns matches the trimmed value, and the
\* answer of the checks that follow the loop
Profile(raw) ==
    LET value == Trim(raw)
    IN  [matching |-> {t \in DOMAIN TYPE_PATTERNS : MatchesType(t, value)},
         otherwise |-> IF LooksLikeNumber(value)
                       THEN [data_type |-> "Decimal", confidence |-> Tenths(8)]
                       ELSE IF LooksLikeDate(value)
                       THEN [data_type |-> "Date", confidence |-> Tenths(8)]
                       ELSE [data_type |-> "Text", confidence |-> Tenths(5)]]

\* the loop of detect_single_value_type: the first key, in the order of the
\* map, one of whose patterns matches
Resolve(profile, order) ==
    IF profile.matching # {}
    THEN [data_type |-> order[CHOOSE k \in 1..Len(order) :
                                  /\ order[k] \in profile.matching
                                  /\ \A j \in 1..(k - 1) : order[j] \notin profile.matching],
          confidence |-> One]
    ELSE profile.otherwise

\* CSV::detect_single_value_type, TYPE_PATTERNS.iter() visiting its keys in `order`
DetectSingleValueType(raw, order) == Eval(Profile(raw), LAMBDA profile : Resolve(profile, order))

\* detect_anomalies counting the rows from one
RECURSIVE AnomaliesUpTo_RowsFromOne(_, _, _, _, _)
AnomaliesUpTo_RowsFromOne(values, expected_type, profiles, order, k) ==
    IF k = 0 THEN <<>>
    ELSE LET value == values[k]
             Pushed(found) ==
                 IF found.data_type # expected_type /\ FGt(found.confidence, Tenths(7))
                 THEN <<[row_index |-> k, value |-> value,
                         expected_type |-> expected_type, found_type |-> found.data_type]>>
                 ELSE <<>>
         IN  AnomaliesUpTo_RowsFromOne(values, expected_type, profiles, order, k - 1)
             \o (IF Trim(value) = <<>> THEN <<>>
                 ELSE Eval(Resolve(profiles[k], order), Pushed))

\* the loop of detect_anomalies over the rows up to k, given the profile of
\* each value: the anomalies pushed, in row order
RECURSIVE AnomaliesUpTo(_, _, _, _, _)
AnomaliesUpTo(values, expected_type, profiles, order, k) ==
    IF k = 0 THEN <<>>
    ELSE LET value == values[k]
             Pushed(found) ==
                 IF found.data_type # expected_type /\ FGt(found.confidence, Tenths(7))
                 THEN <<[row_index |-> k - 1, value |-> value,
                         expected_type |-> expected_type, found_type |-> found.data_type]>>
                 ELSE <<>>
         IN  AnomaliesUpTo(values, expected_type, profiles, order, k - 1)
             \o (IF Trim(value) = <<>> THEN <<>>
                 ELSE Eval(Resolve(profiles[k], order), Pushed))

\* CSV::detect_anomalies: the lists it can return, one for each order of the map
DetectAnomalies(values, expected_type) ==
    LET Lists(profiles) ==
            {AnomaliesUpTo(values, expected_type, profiles, order, Len(values)) :
                order \in TypeOrders}
    IN  Eval([i \in 1..Len(values) |-> Profile(values[i])] \o <<>>, Lists)

\* CSV::analyze_single_column on the column (header, values): the
\* ColumnMetadata it can return, one for each order of the map
AnalyzeSingleColumn(header, values) ==
    LET Build(inferred) ==
            LET inferred_type == inferred.data_type
                null_count == Cardinality({i \in 1..Len(values) : Trim(values[i]) = <<>>})
                value_set == {values[i] : i \in {j \in 1..Len(values) : Trim(values[j]) # <<>>}}
                numeric_stats == IF inferred_type \in {"Integer", "Decimal", "Currency"}
                                 THEN CalculateNumericStats(values) ELSE None
                text_stats == IF inferred_type \in {"Text", "Email", "Phone", "Categorical"}
                              THEN CalculateTextStats(values) ELSE None
                WithAnomalies(fixed) ==
                    {[name |-> fixed.name, data_type |-> fixed.data_type,
                      confidence |-> fixed.confidence, row_count |-> fixed.row_count,
                      null_count |-> fixed.null_count, distinct_count |-> fixed.distinct_count,
                      numeric_stats |-> fixed.numeric_stats, text_stats |-> fixed.text_stats,
                      anomalies |-> anomalies] :
                        anomalies \in DetectAnomalies(values, inferred_type)}
            IN  Eval([name |-> header, data_type |-> inferred_type,
                      confidence |-> inferred.confidence,
                      row_count |-> Len(values), null_count |-> null_count,
                      distinct_count |-> Cardinality(value_set),
                      numeric_stats |-> numeric_stats, text_stats |-> text_stats],
                     WithAnomalies)
    IN  Eval(InferType(values), Build)

(***************************************************************************)
(* normalize of the six recognizers.  An i64 and an f64 are kept as they   *)
(* are written in decimal: a sign and digit strings.  For the numbers the  *)
(* model formats (below 10^4 in magnitude, at most one digit beyond the    *)
(* precision asked for) the decimal rounding of the f64 is the decimal     *)
(* rounding of the written number, unless the digit beyond is a lone 5: a  *)
(* written tie is decided by the binary value, and the inputs hold none.   *)
(***************************************************************************)
RECURSIVE StripLeadingZeros(_)
StripLeadingZeros(ds) ==
    IF Len(ds) > 1 /\ Head(ds) = "0" THEN StripLeadingZeros(Tail(ds)) ELSE ds

\* str::trim_end_matches(c)
RECURSIVE TrimEndMatches(_, _)
TrimEndMatches(s, c) ==
    IF s # <<>> /\ s[Len(s)] = c THEN TrimEndMatches(SubSeq(s, 1, Len(s) - 1), c) ELSE s

\* i64::MAX, written
I64Max == <<"9", "2", "2", "3", "3", "7", "2", "0", "3", "6",
            "8", "5", "4", "7", "7", "5", "8", "0", "7">>

\* a <= b for two digit strings without leading zeros
DigitsLe(a, b) == Len(a) < Len(b) \/ (Len(a) = Len(b) /\ ~StrLess(b, a))

\* str::parse::<i64>: an optional sign and at least one digit, in range
\* (i64::MIN itself, one beyond -i64::MAX, is left out)
ParseI64(s) ==
    LET signed == s # <<>> /\ s[1] \in {"+", "-"}
        body == IF signed THEN Tail(s) ELSE s
        digits == StripLeadingZeros(body)
    IN  IF body # <<>> /\ AllDigits(body) /\ DigitsLe(digits, I64Max)
        THEN Some([neg |-> signed /\ s[1] = "-" /\ digits # <<"0">>, digits |-> digits])
        ELSE None

\* i64::to_string
I64ToString(int_val) == IF int_val.neg THEN <<"-">> \o int_val.digits ELSE int_val.digits

\* str::parse::<f64> on an optional sign, digits and at most one point: the
\* sign bit, the digits before the point and the digits after it
ParseF64Written(s) ==
    LET signed == s # <<>> /\ s[1] \in {"+", "-"}
        body == IF signed THEN Tail(s) ELSE s
        parts == SplitOn(body, {"."})
        whole == parts[1]
        fraction == IF Len(parts) = 2 THEN parts[2] ELSE <<>>
    IN  IF /\ Len(parts) <= 2
           /\ AllDigits(whole) /\ AllDigits(fraction)
           /\ whole \o fraction # <<>>
        THEN Some([neg |-> signed /\ s[1] = "-",
                   whole |-> StripLeadingZeros(IF whole = <<>> THEN <<"0">> ELSE whole),
                   fraction |-> fraction])
        ELSE None

\* a digit string plus one
RECURSIVE Increment(_)
Increment(ds) ==
    IF ds = <<>> THEN <<"1">>
    ELSE IF ds[Len(ds)] = "9" THEN Increment(SubSeq(ds, 1, Len(ds) - 1)) \o <<"0">>
    ELSE SubSeq(ds, 1, Len(ds) - 1) \o <<DigitSeq[DigitVal(ds[Len(ds)]) + 2]>>

\* format!("{:.places}", x) of an f64: the sign when the sign bit is set (a
\* number that rounds to zero keeps it), the whole part, a point and exactly
\* `places` digits
FormatFixed(x, places) ==
    LET padded == x.fraction \o [i \in 1..(places - Len(x.fraction)) |-> "0"]
        kept == x.whole \o SubSeq(padded, 1, places)
        up == Len(x.fraction) > places /\ DigitVal(x.fraction[places + 1]) >= 5
        digits == IF up THEN Increment(kept) ELSE kept
        whole == StripLeadingZeros(SubSeq(digits, 1, Len(digits) - places))
        fraction == SubSeq(digits, Len(digits) - places + 1, Len(digits))
    IN  (IF x.neg THEN <<"-">> ELSE <<>>) \o whole \o <<".">> \o fraction

\* NumericType::normalize
NumericNormalize(value) ==
    LET clean_value == RemoveChar(Trim(value), " ")
        numeric_value == RemoveChar(clean_value, ",")
        int_val == ParseI64(numeric_value)
        float_val == ParseF64Written(numeric_value)
    IN  IF clean_value = <<>> THEN None
        ELSE IF ~NumericIsDefiniteMatch(clean_value) THEN None
        ELSE IF int_val # None THEN Some(I64ToString(int_val.some))
        ELSE IF float_val # None
        THEN Some(TrimEndMatches(TrimEndMatches(FormatFixed(float_val.some, 10), "0"), "."))
        ELSE None

\* CurrencySymbol::USD.format_value
FormatValue(amount) == <<"$">> \o FormatFixed(amount, 2)

\* CurrencyType::normalize
CurrencyNormalize(value) ==
    LET clean_value == RemoveChar(value, " ")
        numeric_part == SelectSeq(clean_value, LAMBDA c : c \in Digit \cup {".", ","})
        amount == ParseF64Written(RemoveChar(numeric_part, ","))
    IN  IF clean_value = <<>> THEN None
        ELSE IF amount = None THEN None
        ELSE Some(FormatValue(amount.some))

\* PhoneType::normalize
PhoneNormalize(value) ==
    LET digits == SelectSeq(value, LAMBDA c : c \in Digit)
        n == Len(digits)
    IN  IF n < 10 \/ n > 15 THEN None
        ELSE IF n = 10
        THEN Some(<<"(">> \o SubSeq(digits, 1, 3) \o <<")", " ">> \o SubSeq(digits, 4, 6)
                  \o <<"-">> \o SubSeq(digits, 7, 10))
        ELSE Some(<<"+">> \o SubSeq(digits, 1, n - 10) \o <<"-">> \o SubSeq(digits, n - 9, n - 7)
                  \o <<"-">> \o SubSeq(digits, n - 6, n - 4) \o <<"-">> \o SubSeq(digits, n - 3, n))

\* EmailType::normalize
EmailNormalize(value) ==
    LET clean_value == ToLowercase(Trim(value))
    IN  IF clean_value = <<>> THEN None
        ELSE IF EmailIsDefiniteMatch(clean_value) THEN Some(clean_value)
        ELSE None

\* u32::to_string
RECURSIVE U32ToString(_)
U32ToString(n) ==
    IF n < 10 THEN <<DigitSeq[n + 1]>> ELSE U32ToString(n \div 10) \o <<DigitSeq[(n % 10) + 1]>>

\* format!("{:0width}", n)
ZeroPadded(n, width) ==
    [i \in 1..(width - Len(U32ToString(n))) |-> "0"] \o U32ToString(n)

\* Date::to_format
DateToFormat(date, target_format) ==
    LET year == ZeroPadded(date.year, 4)
        month == ZeroPadded(date.month, 2)
        day == ZeroPadded(date.day, 2)
    IN  CASE target_format = "Iso8601" -> year \o <<"-">> \o month \o <<"-">> \o day
          [] target_format = "UsSlash" -> month \o <<"/">> \o day \o <<"/">> \o year
          [] target_format = "EuropeanDash" -> day \o <<"-">> \o month \o <<"-">> \o year
          [] target_format = "EuropeanSlash" -> day \o <<"/">> \o month \o <<"/">> \o year
          [] target_format = "JapaneseSlash" -> year \o <<"/">> \o month \o <<"/">> \o day
          [] target_format = "UsDash" -> month \o <<"-">> \o day \o <<"-">> \o year

\* DateType::normalize
DateNormalize(value) ==
    LET date == DateFromStr(value)
    IN  IF date = None THEN None ELSE Some(DateToFormat(date, "Iso8601"))

\* CategoricalType::normalize
CategoricalNormalize(value) ==
    LET clean_value == Trim(value)
    IN  IF clean_value = <<>> THEN None ELSE Some(clean_value)

\* R::normalize for the recognizer named R
Normalize(R, value) ==
    CASE R = "Numeric" -> NumericNormalize(value)
      [] R = "Currency" -> CurrencyNormalize(value)
      [] R = "Date" -> DateNormalize(value)
      [] R = "Email" -> EmailNormalize(value)
      [] R = "Phone" -> PhoneNormalize(value)
      [] R = "Categorical" -> CategoricalNormalize(value)

(***************************************************************************)
(* types.rs: the fields of the ColumnMetadata that analyze_single_column   *)
(* fills from the iteration of a HashSet or a HashMap: sample_values and   *)
(* format_pattern.  Each call builds its own value_set and format_counts,  *)
(* so their iteration orders are free in every call.                       *)
(***************************************************************************)
UNKNOWN == <<"U", "N", "K", "N", "O", "W", "N">>

\* value_set.iter().take(5): the values a call can take, as a set (the Vec
\* sample_values holds them in the order of the iteration)
SampleValues(value_set) ==
    {taken \in SUBSET value_set :
        Cardinality(taken) = (IF Cardinality(value_set) < 5 THEN Cardinality(value_set) ELSE 5)}

\* format_counts.into_iter().max_by_key(|&(_, count)| count), or "UNKNOWN" for
\* an empty map: the formats it can return, one of those counted most often
MaxByCount(formats) ==
    LET format_counts == ValueCounts(formats)
    IN  IF formats = <<>> THEN {UNKNOWN}
        ELSE {f \in DOMAIN format_counts :
                 \A g \in DOMAIN format_counts : format_counts[g] <= format_counts[f]}

\* the format detect_date_format counts for one value
DateFormatOf(value) ==
    LET year_first == Len(value) = 10 /\ \A i \in 1..4 : value[i] \in Digit
        Shape(sep, ymd, dmy, mon) ==
            IF CountChar(value, sep) = 2
            THEN IF value[1] \in Digit THEN (IF year_first THEN ymd ELSE dmy) ELSE mon
            ELSE UNKNOWN
    IN  IF CountChar(value, "-") > 0
        THEN Shape("-", <<"Y", "Y", "Y", "Y", "-", "M", "M", "-", "D", "D">>, <<"D", "D", "-", "M", "M", "-", "Y", "Y", "Y", "Y">>, <<"M", "O", "N", "-", "D", "D", "-", "Y", "Y", "Y", "Y">>)
        ELSE IF CountChar(value, "/") > 0
        THEN Shape("/", <<"Y", "Y", "Y", "Y", "/", "M", "M", "/", "D", "D">>, <<"M", "M", "/", "D", "D", "/", "Y", "Y", "Y", "Y">>, <<"M", "O", "N", "/", "D", "D", "/", "Y", "Y", "Y", "Y">>)
        ELSE UNKNOWN

\* the format detect_phone_format counts for one value
PhoneFormatOf(value) ==
    IF CountChar(value, "(") > 0 /\ CountChar(value, ")") > 0 THEN <<"(", "#", "#", "#", ")", " ", "#", "#", "#", "-", "#", "#", "#", "#">>
    ELSE IF value[1] = "+" THEN <<"+", "#", " ", "#", "#", "#", " ", "#", "#", "#", " ", "#", "#", "#", "#">>
    ELSE IF CountChar(value, "-") > 0 THEN <<"#", "#", "#", "-", "#", "#", "#", "-", "#", "#", "#", "#">>
    ELSE <<"#", "#", "#", "#", "#", "#", "#", "#", "#", "#">>

\* str::ends_with
EndsWith(s, suffix) ==
    Len(s) >= Len(suffix) /\ SubSeq(s, Len(s) - Len(suffix) + 1, Len(s)) = suffix

\* the format detect_currency_format counts for one value
CurrencyFormatOf(value) ==
    IF value[1] = "$" THEN <<"$", "#", ",", "#", "#", "#", ".", "#", "#">>
    ELSE IF value[1] = "€" THEN <<"€", "#", ",", "#", "#", "#", ".", "#", "#">>
    ELSE IF value[1] = "£" THEN <<"£", "#", ",", "#", "#", "#", ".", "#", "#">>
    ELSE IF EndsWith(value, <<"U", "S", "D">>) THEN <<"#", ",", "#", "#", "#", ".", "#", "#", " ", "U", "S", "D">>
    ELSE IF EndsWith(value, <<"E", "U", "R">>) THEN <<"#", ",", "#", "#", "#", ".", "#", "#", " ", "E", "U", "R">>
    ELSE IF EndsWith(value, <<"G", "B", "P">>) THEN <<"#", ",", "#", "#", "#", ".", "#", "#", " ", "G", "B", "P">>
    ELSE <<"#", ",", "#", "#", "#", ".", "#", "#">>

\* the formats counted by the loop of a detect_*_format, in row order
FormatsOf(values, FormatOf(_)) ==
    LET rows == FilterNonEmpty(values)
    IN  [i \in 1..Len(rows) |-> FormatOf(rows[i])]

\* CSV::detect_date_format: the formats it can return
DetectDateFormat(values) == MaxByCount(FormatsOf(values, DateFormatOf))

\* CSV::detect_phone_format: the formats it can return
DetectPhoneFormat(values) == MaxByCount(FormatsOf(values, PhoneFormatOf))

\* CSV::detect_currency_format: the formats it can return
DetectCurrencyFormat(values) == MaxByCount(FormatsOf(values, CurrencyFormatOf))

\* the match on inferred_type that fills format_pattern: the Options it can hold
FormatPatterns(inferred_type, values) ==
    CASE inferred_type = "Date" -> {Some(f) : f \in DetectDateFormat(values)}
      [] inferred_type = "Phone" -> {Some(f) : f \in DetectPhoneFormat(values)}
      [] inferred_type = "Currency" -> {Some(f) : f \in DetectCurrencyFormat(values)}
      [] OTHER -> {None}

\* CSV::analyze_single_column when TYPE_PATTERNS.iter() visits its keys in
\* `order`, given the profile of each value: what a call can return for
\* data_type, confidence, sample_values, format_pattern and anomalies
AnalyzeSingleColumnIn(order, values, profiles) ==
    LET Build(inferred) ==
            LET value_set == {values[i] : i \in {j \in 1..Len(values) : Trim(values[j]) # <<>>}}
                With(anomalies) ==
                    {[data_type |-> inferred.data_type, confidence |-> inferred.confidence,
                      sample_values |-> sample_values, format_pattern |-> format_pattern,
                      anomalies |-> anomalies] :
                        sample_values \in SampleValues(value_set),
                        format_pattern \in FormatPatterns(inferred.data_type, values)}
            IN  Eval(AnomaliesUpTo(values, inferred.data_type, profiles, order, Len(values)),
                     With)
    IN  Eval(InferType(values), Build)

(***************************************************************************)
(* types.rs: CSV::determine_sql_type.  It reads min, max and mean of the   *)
(* NumericStats, which are kept here as they are written in decimal (a     *)
(* sign, the digits before the point and the digits after it), so that     *)
(* numbers beyond 32 bits can be compared and formatted.                   *)
(***************************************************************************)
\* an integer as an f64: -n when neg
WrittenInt(neg, digits) == [neg |-> neg, whole |-> digits, fraction |-> <<>>]

\* i32::MIN as f64, i32::MAX as f64, u16::MAX as f64 and 0.0
I32Min == WrittenInt(TRUE, <<"2", "1", "4", "7", "4", "8", "3", "6", "4", "8">>)
I32Max == WrittenInt(FALSE, <<"2", "1", "4", "7", "4", "8", "3", "6", "4", "7">>)
U16Max == WrittenInt(FALSE, <<"6", "5", "5", "3", "5">>)
WrittenZero == WrittenInt(FALSE, <<"0">>)

\* x == 0.0 (which -0.0 is too)
IsZero(x) == x.whole = <<"0">> /\ \A i \in 1..Len(x.fraction) : x.fraction[i] = "0"

\* |x| <= |y|
AbsLe(x, y) ==
    LET width == IF Len(x.fraction) > Len(y.fraction) THEN Len(x.fraction) ELSE Len(y.fraction)
        Padded(z) == z.whole \o z.fraction \o [i \in 1..(width - Len(z.fraction)) |-> "0"]
    IN  DigitsLe(Padded(x), Padded(y))

\* x <= y on f64
WrittenLe(x, y) ==
    LET x_negative == x.neg /\ ~IsZero(x)
        y_negative == y.neg /\ ~IsZero(y)
    IN  IF x_negative THEN (IF y_negative THEN AbsLe(y, x) ELSE TRUE)
        ELSE IF y_negative THEN FALSE
        ELSE AbsLe(x, y)

\* usize::to_string
UsizeToString(n) == U32ToString(n)

\* the closure count_decimals of calculate_max_decimal_places
CountDecimals(n) == Len(TrimEndMatches(SplitOn(FormatFixed(n, 10), {"."})[2], "0"))

\* usize::max and usize::min
UMax(a, b) == IF a < b THEN b ELSE a
UMin(a, b) == IF a < b THEN a ELSE b

\* CSV::calculate_max_decimal_places
CalculateMaxDecimalPlaces(stats) ==
    UMax(UMax(UMax(0, CountDecimals(stats.min)), CountDecimals(stats.max)),
         CountDecimals(stats.mean))

\* CSV::calculate_total_digits; (max_abs.log10().floor() as i32 + 1).max(1) is
\* the number of digits max_abs has before the point
CalculateTotalDigits(stats) ==
    LET max_abs == IF AbsLe(stats.min, stats.max) THEN stats.max ELSE stats.min
        whole_digits == Len(max_abs.whole)
    IN  whole_digits + CalculateMaxDecimalPlaces(stats)

\* str::replace('\'', "''")
RECURSIVE DoubleQuotes(_)
DoubleQuotes(val) ==
    IF val = <<>> THEN <<>>
    ELSE (IF Head(val) = "'" THEN <<"'", "'">> ELSE <<Head(val)>>) \o DoubleQuotes(Tail(val))

\* Vec<String>::join(", ")
RECURSIVE Join(_)
Join(strs) ==
    IF strs = <<>> THEN <<>>
    ELSE IF Len(strs) = 1 THEN strs[1]
    ELSE strs[1] \o <<",", " ">> \o Join(Tail(strs))

\* CSV::generate_enum_type
GenerateEnumType(values) ==
    LET enum_values == Join([i \in 1..Len(values) |->
                                <<"'">> \o DoubleQuotes(values[i][1]) \o <<"'">>])
    IN  <<"E", "N", "U", "M", "(">> \o enum_values \o <<")">>

\* format!("VARCHAR({})", n)
Varchar(n) == <<"V", "A", "R", "C", "H", "A", "R", "(">> \o UsizeToString(n) \o <<")">>

\* the Integer arm of determine_sql_type with max compared strictly against
\* u16::MAX
IntegerType_U16Exclusive(numeric_stats) ==
    IF numeric_stats = None THEN <<"I", "N", "T">>
    ELSE LET stats == numeric_stats.some
         IN  IF WrittenLe(I32Min, stats.min) /\ WrittenLe(stats.max, I32Max)
             THEN IF WrittenLe(WrittenZero, stats.min)
                  THEN (IF WrittenLe(stats.max, U16Max) /\ ~WrittenLe(U16Max, stats.max)
                        THEN <<"S", "M", "A", "L", "L", "I", "N", "T", " ", "U", "N", "S", "I", "G", "N", "E", "D">>
                        ELSE <<"I", "N", "T", " ", "U", "N", "S", "I", "G", "N", "E", "D">>)
                  ELSE <<"I", "N", "T">>
             ELSE <<"B", "I", "G", "I", "N", "T">>

\* the Integer arm of the match of determine_sql_type
IntegerType(numeric_stats) ==
    IF numeric_stats = None THEN <<"I", "N", "T">>
    ELSE LET stats == numeric_stats.some
         IN  IF WrittenLe(I32Min, stats.min) /\ WrittenLe(stats.max, I32Max)
             THEN IF WrittenLe(WrittenZero, stats.min)
                  THEN (IF WrittenLe(stats.max, U16Max)
                        THEN <<"S", "M", "A", "L", "L", "I", "N", "T", " ", "U", "N", "S", "I", "G", "N", "E", "D">>
                        ELSE <<"I", "N", "T", " ", "U", "N", "S", "I", "G", "N", "E", "D">>)
                  ELSE <<"I", "N", "T">>
             ELSE <<"B", "I", "G", "I", "N", "T">>

\* the match on data_type of determine_sql_type: base_type
BaseType(data_type, numeric_stats, text_stats) ==
    CASE data_type = "Integer" -> IntegerType(numeric_stats)
      [] data_type = "Decimal" ->
            IF numeric_stats = None THEN <<"D", "E", "C", "I", "M", "A", "L", "(", "1", "0", ",", "2", ")">>
            ELSE LET stats == numeric_stats.some
                 IN  <<"D", "E", "C", "I", "M", "A", "L", "(">> \o UsizeToString(UMin(CalculateTotalDigits(stats), 65))
                     \o <<",">> \o UsizeToString(UMin(CalculateMaxDecimalPlaces(stats), 30))
                     \o <<")">>
      [] data_type = "Currency" -> <<"D", "E", "C", "I", "M", "A", "L", "(", "1", "9", ",", "4", ")">>
      [] data_type = "Date" -> <<"D", "A", "T", "E">>
      [] data_type = "Email" ->
            IF text_stats = None THEN <<"V", "A", "R", "C", "H", "A", "R", "(", "2", "5", "5", ")">>
            ELSE Varchar(UMin(text_stats.some.max_length, 255))
      [] data_type = "Phone" -> <<"V", "A", "R", "C", "H", "A", "R", "(", "2", "0", ")">>
      [] data_type = "Categorical" ->
            IF text_stats = None THEN <<"V", "A", "R", "C", "H", "A", "R", "(", "5", "0", ")">>
            ELSE LET stats == text_stats.some
                 IN  IF stats.max_length <= 1 THEN <<"C", "H", "A", "R", "(", "1", ")">>
                     ELSE IF Len(stats.most_common) <= 10 /\ stats.max_length <= 50
                     THEN GenerateEnumType(stats.most_common)
                     ELSE Varchar(UMin(stats.max_length, 255))
      [] data_type = "Text" ->
            IF text_stats = None THEN <<"T", "E", "X", "T">>
            ELSE LET stats == text_stats.some
                 IN  IF stats.max_length <= 255 THEN Varchar(stats.max_length)
                     ELSE IF stats.max_length <= 65535 THEN <<"T", "E", "X", "T">>
                     ELSE IF stats.max_length <= 16777215 THEN <<"M", "E", "D", "I", "U", "M", "T", "E", "X", "T">>
                     ELSE <<"L", "O", "N", "G", "T", "E", "X", "T">>

\* CSV::determine_sql_type
DetermineSqlType(data_type, numeric_stats, text_stats, nullable) ==
    BaseType(data_type, numeric_stats, text_stats)
    \o (IF nullable THEN <<" ", "N", "U", "L", "L">> ELSE <<" ", "N", "O", "T", " ", "N", "U", "L", "L">>)

(***************************************************************************)
(* types.rs: CSV::should_create_index                                      *)
(***************************************************************************)
\* should_create_index with the bound on the distinct values of a Categorical
\* column exclusive
ShouldCreateIndex_Below1000(col) ==
    LET unique_ratio == FDiv(FromInt(col.distinct_count), FromInt(col.row_count))
        null_ratio == FDiv(FromInt(col.null_count), FromInt(col.row_count))
    IN  CASE col.data_type \in {"Integer", "Date", "Email"} ->
                FGt(unique_ratio, Tenths(1)) /\ FLt(null_ratio, Tenths(5))
          [] col.data_type = "Categorical" ->
                col.distinct_count > 1 /\ col.distinct_count < 1000 /\ FLt(null_ratio, Tenths(3))
          [] col.data_type = "Text" ->
                /\ FGt(unique_ratio, Tenths(5))
                /\ col.distinct_count > 1
                /\ col.distinct_count <= 10000
                /\ FLt(null_ratio, Tenths(1))
          [] OTHER -> FALSE

\* CSV::should_create_index
ShouldCreateIndex(col) ==
    LET unique_ratio == FDiv(FromInt(col.distinct_count), FromInt(col.row_count))
        null_ratio == FDiv(FromInt(col.null_count), FromInt(col.row_count))
    IN  CASE col.data_type \in {"Integer", "Date", "Email"} ->
                FGt(unique_ratio, Tenths(1)) /\ FLt(null_ratio, Tenths(5))
          [] col.data_type = "Categorical" ->
                col.distinct_count > 1 /\ col.distinct_count <= 1000 /\ FLt(null_ratio, Tenths(3))
          [] col.data_type = "Text" ->
                /\ FGt(unique_ratio, Tenths(5))
                /\ col.distinct_count > 1
                /\ col.distinct_count <= 10000
                /\ FLt(null_ratio, Tenths(1))
          [] OTHER -> FALSE

(***************************************************************************)
(* types.rs: CSV::analyze_with_workers and worker_main.  new_from_column   *)
(* and analyze_single_column_worker, which worker_main calls, are not in   *)
(* the source: the ColumnMetadata a worker computes is kept as the header  *)
(* and the values it is computed from.                                     *)
(***************************************************************************)
\* CSV::distribute_work: for each worker, the column indices (from 0) of its chunk
DistributeWork(column_count, num_workers) ==
    [w \in 1..num_workers |->
        LET mine == {col_idx \in 0..(column_count - 1) : col_idx % num_workers = w - 1}
        IN  [k \in 1..Cardinality(mine) |-> (w - 1) + (k - 1) * num_workers]]

\* the WorkerMessage analyze_with_workers posts for the column col_idx
MessageFor(columns, col_idx) ==
    [column_index |-> col_idx,
     column_data |-> columns[col_idx + 1].values,
     header |-> columns[col_idx + 1].header]

\* the ColumnMetadata computed from a header and its values
MetadataFrom(header, column_data) == [name |-> header, computed_from |-> column_data]

\* the closure of worker_main: the WorkerResponse to a WorkerMessage
ResponseTo(message) ==
    [column_index |-> message.column_index,
     metadata |-> MetadataFrom(message.header, message.column_data)]

\* the body of the receiving loop with the response stored in arrival order
Store_ArrivalOrder(slots, received, response) ==
    [slots EXCEPT ![received + 1] = Some(response.metadata)]

\* the body of the receiving loop: columns[response.column_index] = Some(response.metadata)
Store(slots, received, response) ==
    [slots EXCEPT ![response.column_index + 1] = Some(response.metadata)]

\* the receiving loop left one response short
LoopEnds_OneShort(received, total_columns) == ~(received + 1 < total_columns)

\* the condition of the receiving loop, negated: while received < total_columns
LoopEnds(received, total_columns) == ~(received < total_columns)

\* columns.into_iter().filter_map(|x| x).collect()
FilterMap(slots) ==
    LET kept == SelectSeq(slots, LAMBDA slot : slot # None)
    IN  [i \in 1..Len(kept) |-> kept[i].some]

(***************************************************************************)
(* parallel/executor.rs: ParallelExecutor::process_columns.  The processor *)
(* and the combiner are any closures of the right types; the model has     *)
(* four pairs of them.  rayon's reduce(identity, op) folds each piece of   *)
(* the work from identity() and combines the pieces with op; where it      *)
(* splits the work depends on the scheduling of the tasks.                 *)
(***************************************************************************)
MIN_CHUNK_SIZE == 1024

\* the processors and combiners: the sum of a chunk and the count of its
\* elements (the two of the tests), the elements themselves, and the count of
\* the chunks
ProcessorKinds == {"Sum", "Count", "Collect", "CountChunks"}

\* the sum of a sequence of integers, by halves
RECURSIVE IntSum(_, _, _)
IntSum(xs, lo, hi) ==
    IF lo > hi THEN 0
    ELSE IF lo = hi THEN xs[lo]
    ELSE IntSum(xs, lo, (lo + hi) \div 2) + IntSum(xs, ((lo + hi) \div 2) + 1, hi)

\* processor(chunk)
Processor(kind, chunk) ==
    CASE kind = "Sum" -> IntSum(chunk, 1, Len(chunk))     \* |chunk| chunk.iter().sum()
      [] kind = "Count" -> Len(chunk)                     \* |chunk| chunk.len()
      [] kind = "Collect" -> chunk                        \* |chunk| chunk.to_vec()
      [] kind = "CountChunks" -> 1                        \* |_chunk| 1

\* combiner(a, b)
Combiner(kind, a, b) ==
    CASE kind = "Collect" -> a \o b                       \* |a, b| [a, b].concat()
      [] OTHER -> a + b                                   \* |a, b| a + b

\* slice::chunks(chunk_size)
RECURSIVE Chunks(_, _)
Chunks(column, chunk_size) ==
    IF column = <<>> THEN <<>>
    ELSE IF Len(column) <= chunk_size THEN <<column>>
    ELSE <<SubSeq(column, 1, chunk_size)>>
         \o Chunks(SubSeq(column, chunk_size + 1, Len(column)), chunk_size)

\* a piece of the work folded by one task: identity(), then op with each item
RECURSIVE FoldFrom(_, _, _)
FoldFrom(kind, acc, items) ==
    IF items = <<>> THEN acc
    ELSE FoldFrom(kind, Combiner(kind, acc, Head(items)), Tail(items))

\* rayon's reduce(identity, op) on the items: the values it can return.  A
\* piece of more than one item is either folded by one task or split in the
\* middle, its halves reduced and joined with op
RECURSIVE Reduce(_, _, _)
Reduce(kind, identity, items) ==
    {FoldFrom(kind, identity, items)}
    \cup (IF Len(items) < 2 THEN {}
          ELSE LET mid == Len(items) \div 2
               IN  {Combiner(kind, left, right) :
                       left \in Reduce(kind, identity, SubSeq(items, 1, mid)),
                       right \in Reduce(kind, identity, SubSeq(items, mid + 1, Len(items)))})

\* the closure process_columns maps over the columns: the values it can return
ProcessOneColumn(kind, column) ==
    LET chunks == Chunks(column, MIN_CHUNK_SIZE)
    IN  Reduce(kind, Processor(kind, <<>>), [k \in 1..Len(chunks) |-> Processor(kind, chunks[k])])

\* ParallelExecutor::process_columns: the Vecs it can return, the results in
\* the order of the columns
ProcessColumns(kind, columns) ==
    {results \in [1..Len(columns) -> UNION {ProcessOneColumn(kind, columns[i]) :
                                               i \in 1..Len(columns)}] :
        \A i \in 1..Len(columns) : results[i] \in ProcessOneColumn(kind, columns[i])}

(***************************************************************************)
(* types.rs: CSV::generate_sql_schema.  The backquote of escape_identifier *)
(* is the character BACKQUOTE of the strings of the model.                 *)
(***************************************************************************)
BACKQUOTE == "U+0060"

\* the concatenation of a sequence of strings
RECURSIVE Concat(_)
Concat(strs) == IF strs = <<>> THEN <<>> ELSE Head(strs) \o Concat(Tail(strs))

\* CSV::escape_identifier
EscapeIdentifier(name) ==
    <<BACKQUOTE>>
    \o Concat([i \in 1..Len(name) |->
                  IF name[i] = BACKQUOTE THEN <<BACKQUOTE, BACKQUOTE>> ELSE <<name[i]>>])
    \o <<BACKQUOTE>>

\* CSV::normalize_identifier
NormalizeIdentifier(name) ==
    ToLowercase([i \in 1..Len(name) |-> IF name[i] \in AlphaNum THEN name[i] ELSE "_"])

\* format!("{:.1}", confidence * 100.0)
FormatPercent(confidence) ==
    IF IsNaN(confidence) THEN <<"N", "a", "N">>
    ELSE LET hundredths == (confidence[1] * 10000) \div confidence[2]
         IN  FormatFixed([neg |-> FALSE, whole |-> U32ToString(hundredths \div 100),
                          fraction |-> <<DigitSeq[((hundredths \div 10) % 10) + 1],
                                         DigitSeq[(hundredths % 10) + 1]>>], 1)

\* format!("{:?}", data_type).to_lowercase()
DebugLowercase(data_type) ==
    CASE data_type = "Integer" -> <<"i", "n", "t", "e", "g", "e", "r">>
      [] data_type = "Decimal" -> <<"d", "e", "c", "i", "m", "a", "l">>
      [] data_type = "Currency" -> <<"c", "u", "r", "r", "e", "n", "c", "y">>
      [] data_type = "Date" -> <<"d", "a", "t", "e">>
      [] data_type = "Email" -> <<"e", "m", "a", "i", "l">>
      [] data_type = "Phone" -> <<"p", "h", "o", "n", "e">>
      [] data_type = "Categorical" -> <<"c", "a", "t", "e", "g", "o", "r", "i", "c", "a", "l">>
      [] data_type = "Text" -> <<"t", "e", "x", "t">>

\* the comments of a column definition: low confidence, anomalies
SchemaComments(col) ==
    (IF FLt(col.confidence, Tenths(9))
     THEN <<<<"t", "y", "p", "e", " ", "c", "o", "n", "f", "i", "d", "e", "n", "c", "e", ":", " ">> \o FormatPercent(col.confidence) \o <<"%">>>> ELSE <<>>)
    \o (IF col.anomalies # <<>>
        THEN <<UsizeToString(Len(col.anomalies)) \o <<" ", "a", "n", "o", "m", "a", "l", "i", "e", "s">>>> ELSE <<>>)

\* the body of the loop over the columns of the CREATE TABLE statement
ColumnDefinition(col, is_last) ==
    <<" ", " ", " ", " ">> \o EscapeIdentifier(col.name) \o <<" ">> \o col.sql_type
    \o (IF col.null_count = 0 THEN <<" ", "N", "O", "T", " ", "N", "U", "L", "L">> ELSE <<>>)
    \o (IF SchemaComments(col) # <<>> THEN <<" ", "-", "-", " ">> \o Join(SchemaComments(col)) ELSE <<>>)
    \o (IF is_last THEN <<>> ELSE <<",">>)
    \o <<"\n">>

\* the body of the loop over the columns of the recommended indexes
IndexDefinition(col) ==
    IF ShouldCreateIndex(col)
    THEN <<"C", "R", "E", "A", "T", "E", " ", "I", "N", "D", "E", "X", " ", "i", "d", "x", "_">> \o NormalizeIdentifier(col.name) \o <<" ", "O", "N", " ", "a", "n", "a", "l", "y", "z", "e", "d", "_", "d", "a", "t", "a", " ", "(">>
         \o EscapeIdentifier(col.name) \o <<")", ";">> \o <<"\n">>
    ELSE <<>>

\* the line of one anomaly in the data quality notes
AnomalyNote(anomaly) ==
    <<"-", "-", " ", " ", " ", " ", " ", "R", "o", "w", " ">> \o UsizeToString(anomaly.row_index + 1) \o <<":", " ", "'">> \o anomaly.value
    \o <<"'", " ", "(", "e", "x", "p", "e", "c", "t", "e", "d", " ">> \o DebugLowercase(anomaly.expected_type)
    \o <<",", " ", "f", "o", "u", "n", "d", " ">> \o DebugLowercase(anomaly.found_type) \o <<")">> \o <<"\n">>

\* the body of the loop over the columns of the data quality notes
QualityNotes(col) ==
    IF col.anomalies # <<>> \/ FLt(col.confidence, Tenths(9))
    THEN <<"-", "-", " ", "C", "o", "l", "u", "m", "n", " ", "'">> \o col.name \o <<"'", ":">> \o <<"\n">>
         \o (IF FLt(col.confidence, Tenths(9))
             THEN <<"-", "-", " ", " ", " ", "L", "o", "w", " ", "t", "y", "p", "e", " ", "c", "o", "n", "f", "i", "d", "e", "n", "c", "e", " ", "(">> \o FormatPercent(col.confidence) \o <<"%", ")">> \o <<"\n">>
             ELSE <<>>)
         \o (IF col.anomalies # <<>>
             THEN <<"-", "-", " ", " ", " ">> \o UsizeToString(Len(col.anomalies)) \o <<" ", "a", "n", "o", "m", "a", "l", "i", "e", "s", " ", "f", "o", "u", "n", "d">> \o <<"\n">>
                  \o Concat([k \in 1..UMin(3, Len(col.anomalies)) |-> AnomalyNote(col.anomalies[k])])
             ELSE <<>>)
    ELSE <<>>

\* CSV::generate_sql_schema
GenerateSqlSchema(columns) ==
    <<"-", "-", " ", "M", "a", "i", "n", " ", "t", "a", "b", "l", "e", " ", "c", "r", "e", "a", "t", "i", "o", "n">> \o <<"\n">>
    \o <<"C", "R", "E", "A", "T", "E", " ", "T", "A", "B", "L", "E", " ", "a", "n", "a", "l", "y", "z", "e", "d", "_", "d", "a", "t", "a", " ", "(">> \o <<"\n">>
    \o Concat([i \in 1..Len(columns) |-> ColumnDefinition(columns[i], i = Len(columns))])
    \o <<")", ";">> \o <<"\n", "\n">>
    \o <<"-", "-", " ", "R", "e", "c", "o", "m", "m", "e", "n", "d", "e", "d", " ", "i", "n", "d", "e", "x", "e", "s">> \o <<"\n">>
    \o Concat([i \in 1..Len(columns) |-> IndexDefinition(columns[i])])
    \o <<"\n">> \o <<"-", "-", " ", "D", "a", "t", "a", " ", "Q", "u", "a", "l", "i", "t", "y", " ", "N", "o", "t", "e", "s", ":">> \o <<"\n">>
    \o Concat([i \in 1..Len(columns) |-> QualityNotes(columns[i])])

(***************************************************************************)
(* Specifications.  Each one exercises one component; the variables of     *)
(* the other components keep their idle values.                            *)
(***************************************************************************)
NoBest == [data_type |-> "None", confidence |-> Zero]

IdleDate == d_value = <<>> /\ d_result = None /\ d_conf = Zero
IdleScore == sc_values = <<>> /\ sc_scores = TypeScoresDefault /\ sc_best = NoBest
IdleCsv == csv_columns = <<>> /\ csv_row_count = 0 /\ csv_result = None
IdleCat == cat_name = <<>> /\ cat_values = <<>> /\ cat_result = None
IdleAn == an_header = <<>> /\ an_values = <<>> /\ an_metadata = None
IdleNorm == n_type = "None" /\ n_value = <<>> /\ n_first = None /\ n_second = None
IdleAnomaly == da_values = <<>> /\ da_expected = "None" /\ da_anomalies = <<>>
IdleTwice == tw_values = <<>> /\ tw_order = None /\ tw_first = None /\ tw_second = None
IdleStats == ns_values = <<>> /\ ns_stats = None
IdleSql ==
    /\ sq_values = <<>> /\ sq_type = "None" /\ sq_null_count = 0
    /\ sq_numeric_stats = None /\ sq_text_stats = None /\ sq_sql = <<>>
IdleIndex == ix_col = None /\ ix_result = FALSE
IdleWorkers ==
    /\ wk_columns = <<>> /\ wk_num_workers = 0 /\ wk_inbox = <<>> /\ wk_events = <<>>
    /\ wk_tasks = {} /\ wk_channel = <<>> /\ wk_completed = 0 /\ wk_slots = <<>>
    /\ wk_received = 0 /\ wk_terminated = FALSE /\ wk_result = None
IdleExec == ex_columns = <<>> /\ ex_kind = "None" /\ ex_results = None
IdleApi == api_call = None /\ api_calls = 0 /\ api_stored = {}
IdleSchema == sch_columns = <<>> /\ sch_sql = None
IdleDetect == dv_value = <<>> /\ dv_order = None /\ dv_result = None

(***************************************************************************)
(* The Date recognizer applied to one value                                *)
(***************************************************************************)
\* the components a date string is put together from
DateParts == {<<"1">>, <<"0", "2">>, <<"4">>, <<"1", "2">>, <<"1", "3">>,
              <<"2", "9">>, <<"3", "0">>, <<"3", "1">>, <<"2", "4">>,
              <<"2", "0", "2", "3">>, <<"2", "0", "2", "4">>,
              <<"1", "9", "0", "0">>, <<"2", "0", "0", "0">>,
              <<"0", "0", "2", "4">>, <<"0", "9", "9", "9">>}
DateSeps == {"-", "/"}
DateInputs == {a \o <<s1>> \o b \o <<s2>> \o c :
                  a \in DateParts, b \in DateParts, c \in DateParts,
                  s1 \in DateSeps, s2 \in DateSeps}

InitDate ==
    /\ pc = "call"
    /\ d_value \in DateInputs
    /\ d_result = None
    /\ d_conf = Zero
    /\ IdleScore /\ IdleCsv /\ IdleCat /\ IdleAn /\ IdleNorm /\ IdleAnomaly /\ IdleTwice /\ IdleStats /\ IdleSql /\ IdleIndex /\ IdleWorkers /\ IdleExec /\ IdleApi /\ IdleSchema /\ IdleDetect

\* a call of DateType::detect_confidence(d_value), and the Date it parsed
CallDateDetectConfidence ==
    /\ pc = "call"
    /\ pc' = "done"
    /\ d_result' = DateFromStr(d_value)
    /\ d_conf' = DateDetectConfidence(d_value)
    /\ UNCHANGED d_value
    /\ UNCHANGED <<scoreVars, csvVars, catVars, anVars, normVars, anomalyVars, twiceVars, statsVars, sqlVars, indexVars, workerVars, execVars, apiVars, schemaVars, detectVars>>

NextDate == CallDateDetectConfidence

SpecDate == InitDate /\ [][NextDate]_vars

(***************************************************************************)
(* TypeScores::from_column and TypeScores::best_type applied to a column,  *)
(* and best_type applied to a TypeScores built field by field (the fields  *)
(* are pub)                                                                *)
(***************************************************************************)
MaxScoreLen == 3

ScoreCells == {<<"1", "2", "3">>, <<"$", "5">>, <<"\t", "$", "5">>, <<"1", "2", ".", "5", "0">>,
               <<"2", "0", "2", "4", "-", "0", "1", "-", "0", "1">>,
               <<"a", "@", "b">>, <<"y", "e", "s">>, <<"a", "b", "c">>, <<" ">>, <<>>}

ScoreColumns == UNION {[1..n -> ScoreCells] : n \in 0..MaxScoreLen}

ScoreGrid == {Zero, Tenths(5), Tenths(9), One}

LiteralScores ==
    [numeric : ScoreGrid, currency : ScoreGrid, date : ScoreGrid,
     email : ScoreGrid, phone : ScoreGrid, categorical : ScoreGrid]

InitScore ==
    /\ sc_best = NoBest
    /\ \/ pc = "call" /\ sc_values \in ScoreColumns /\ sc_scores = TypeScoresDefault
       \/ pc = "literal" /\ sc_values = <<>> /\ sc_scores \in LiteralScores
    /\ IdleDate /\ IdleCsv /\ IdleCat /\ IdleAn /\ IdleNorm /\ IdleAnomaly /\ IdleTwice /\ IdleStats /\ IdleSql /\ IdleIndex /\ IdleWorkers /\ IdleExec /\ IdleApi /\ IdleSchema /\ IdleDetect

\* TypeScores::from_column(sc_values)
CallFromColumn ==
    /\ pc = "call"
    /\ pc' = "scored"
    /\ sc_scores' = FromColumn(sc_values)
    /\ UNCHANGED <<sc_values, sc_best>>
    /\ UNCHANGED <<dateVars, csvVars, catVars, anVars, normVars, anomalyVars, twiceVars, statsVars, sqlVars, indexVars, workerVars, execVars, apiVars, schemaVars, detectVars>>

\* sc_scores.best_type()
CallBestType ==
    /\ pc \in {"scored", "literal"}
    /\ pc' = (IF pc = "scored" THEN "done" ELSE "done_literal")
    /\ sc_best' = BestType(sc_scores)
    /\ UNCHANGED <<sc_values, sc_scores>>
    /\ UNCHANGED <<dateVars, csvVars, catVars, anVars, normVars, anomalyVars, twiceVars, statsVars, sqlVars, indexVars, workerVars, execVars, apiVars, schemaVars, detectVars>>

NextScore == CallFromColumn \/ CallBestType

SpecScore == InitScore /\ [][NextScore]_vars

(***************************************************************************)
(* CSV::infer_column_types applied to a CSV as from_string builds it: every *)
(* column has row_count values and no metadata.  A column is one or two    *)
(* runs of a repeated cell, which is what the categorical post-analysis    *)
(* counts.                                                                 *)
(***************************************************************************)
MaxRun == 22
MaxColumns == 2

Long50 == [i \in 1..50 |-> "q"]
InferCells == {<<"a", "b", "c">>, <<"x", "y">>, <<>>, <<"0", ".", "5">>, <<"7">>, Long50}
RunLens == {1, 20, 21, MaxRun}
Run(k, cell) == [i \in 1..k |-> cell]
OneRunColumns(len) == {Run(len, c) : c \in InferCells}
TwoRunColumns ==
    {Run(k1, c1) \o Run(k2, c2) : k1 \in RunLens, k2 \in RunLens, c1 \in InferCells, c2 \in InferCells}
\* the header row: col1, col2, ...
HeaderOf(i) == <<"c", "o", "l", DigitSeq[i + 1]>>
NewColumn(i, values) == [header |-> HeaderOf(i), values |-> values, metadata |-> None]
CsvInputs ==
    {<<NewColumn(1, v)>> : v \in TwoRunColumns}
    \cup UNION {UNION {{[i \in 1..n |-> NewColumn(i, vs[i])] : vs \in [1..n -> OneRunColumns(len)]}
                        : n \in 1..MaxColumns} : len \in RunLens}

\* CSV::from_string has returned Ok(CSV { columns, row_count })
InitInfer ==
    /\ pc = "constructed"
    /\ csv_columns \in CsvInputs
    /\ csv_row_count = Len(csv_columns[1].values)
    /\ csv_result = None
    /\ IdleDate /\ IdleScore /\ IdleCat /\ IdleAn /\ IdleNorm /\ IdleAnomaly /\ IdleTwice /\ IdleStats /\ IdleSql /\ IdleIndex /\ IdleWorkers /\ IdleExec /\ IdleApi /\ IdleSchema /\ IdleDetect

\* csv.infer_column_types()
CallInferColumnTypes ==
    /\ pc = "constructed"
    /\ pc' = "inferred"
    /\ \E out \in {InferColumnTypes(csv_columns)} :
           csv_columns' = out.columns /\ csv_result' = Some(out.result)
    /\ UNCHANGED csv_row_count
    /\ UNCHANGED <<dateVars, scoreVars, catVars, anVars, normVars, anomalyVars, twiceVars, statsVars, sqlVars, indexVars, workerVars, execVars, apiVars, schemaVars, detectVars>>

NextInfer == CallInferColumnTypes

SpecInfer == InitInfer /\ [][NextInfer]_vars

(***************************************************************************)
(* CategoricalType::analyze_column applied to a column and its header      *)
(***************************************************************************)
MaxCatRuns == 2

CatCells == {<<"y">>, <<"n">>, <<"m", "a", "y", "b", "e">>, <<>>}
CatRunLens == {1, 10, 20}
CatNames == {<<"s", "t", "a", "t", "e">>, <<"T", "y", "p", "e">>}
CatRuns == {Run(k, c) : k \in CatRunLens, c \in CatCells}
RECURSIVE CatColumns(_)
CatColumns(runs) ==
    IF runs = 0 THEN {<<>>}
    ELSE CatColumns(runs - 1) \cup {r \o col : r \in CatRuns, col \in CatColumns(runs - 1)}

InitCat ==
    /\ pc = "call"
    /\ cat_name \in CatNames
    /\ cat_values \in CatColumns(MaxCatRuns)
    /\ cat_result = None
    /\ IdleDate /\ IdleScore /\ IdleCsv /\ IdleAn /\ IdleNorm /\ IdleAnomaly /\ IdleTwice /\ IdleStats /\ IdleSql /\ IdleIndex /\ IdleWorkers /\ IdleExec /\ IdleApi /\ IdleSchema /\ IdleDetect

\* CategoricalType::analyze_column(&cat_values, &cat_name)
CallAnalyzeColumn ==
    /\ pc = "call"
    /\ pc' = "done"
    /\ cat_result' = AnalyzeColumn(cat_values, cat_name)
    /\ UNCHANGED <<cat_name, cat_values>>
    /\ UNCHANGED <<dateVars, scoreVars, csvVars, anVars, normVars, anomalyVars, twiceVars, statsVars, sqlVars, indexVars, workerVars, execVars, apiVars, schemaVars, detectVars>>

NextCat == CallAnalyzeColumn

SpecCat == InitCat /\ [][NextCat]_vars

(***************************************************************************)
(* CSV::analyze_single_column (types.rs) applied to one column             *)
(***************************************************************************)
MaxAnalyzeLen == 3

\* the cells of a column: nulls, numbers, a currency amount and words
AnalyzeCells == {<<>>, <<" ">>, <<"7">>, <<"0", ".", "5">>, <<"$", "5">>, <<"a", "b", "c">>,
                 <<"y", "e", "s">>}
\* ten digits: a definite match of two keys of TYPE_PATTERNS, Integer and Phone.
\* Such cells come with nulls and words only, so that the statistics, which
\* the model computes on machine integers, never take in a ten-digit number.
TenDigits == <<"1", "2", "3", "4", "5", "6", "7", "8", "9", "0">>
TenDigitCells == {<<>>, <<"a", "b", "c">>, TenDigits}
\* amounts written with the currency code after the number
CodeAfterCells == {<<>>, <<"7">>, <<"5", " ", "U", "S", "D">>,
                   <<"5", ".", "0", "0", " ", "U", "S", "D">>}
AnalyzeColumns ==
    UNION {[1..n -> AnalyzeCells] \cup [1..n -> TenDigitCells] \cup [1..n -> CodeAfterCells] :
              n \in 0..MaxAnalyzeLen}
AnalyzeHeader == <<"c", "o", "l">>

InitAnalyze ==
    /\ pc = "call"
    /\ an_header = AnalyzeHeader
    /\ an_values \in AnalyzeColumns
    /\ an_metadata = None
    /\ IdleDate /\ IdleScore /\ IdleCsv /\ IdleCat /\ IdleNorm /\ IdleAnomaly /\ IdleTwice /\ IdleStats /\ IdleSql /\ IdleIndex /\ IdleWorkers /\ IdleExec /\ IdleApi /\ IdleSchema /\ IdleDetect

\* self.analyze_single_column(column)
CallAnalyzeSingleColumn ==
    /\ pc = "call"
    /\ pc' = "done"
    /\ \E metadata \in AnalyzeSingleColumn(an_header, an_values) :
           an_metadata' = Some(metadata)
    /\ UNCHANGED <<an_header, an_values>>
    /\ UNCHANGED <<dateVars, scoreVars, csvVars, catVars, normVars, anomalyVars, twiceVars, statsVars, sqlVars, indexVars, workerVars, execVars, apiVars, schemaVars, detectVars>>

NextAnalyze == CallAnalyzeSingleColumn

SpecAnalyze == InitAnalyze /\ [][NextAnalyze]_vars

(***************************************************************************)
(* Claims about the Date recognizer                                        *)
(***************************************************************************)
\* the calendar rule of the specification: 1000 <= year <= 9999, month in
\* 1..12, day in 1..days-in-month with the Gregorian leap years
CalendarValid(year, month, day) ==
    /\ 1000 <= year /\ year <= 9999
    /\ month \in 1..12
    /\ day >= 1
    /\ day <= (IF month = 2
               THEN (IF (year % 4 = 0 /\ year % 100 # 0) \/ year % 400 = 0
                     THEN 29 ELSE 28)
               ELSE IF month \in {4, 6, 9, 11} THEN 30 ELSE 31)

\* the value has the shape of `format` and its components, read under that
\* shape as written, form a valid calendar date
ValidUnderShape(format, value) ==
    /\ DateMatches(format, value)
    /\ LET c == ExtractComponents(format, value)
       IN  c # None /\ CalendarValid(c.year, c.month, c.day)

\* C9: the Date recognizer returns confidence 1.0 for every value that has
\* one of the six supported shapes and whose components read under that
\* shape form a valid calendar date (so D/M/YYYY and M-D-YYYY values with a
\* day above 12 are accepted).
C9_ValidShapeAccepted ==
    pc = "done" =>
        ((\E f \in DateFormats : ValidUnderShape(f, Trim(d_value)))
            => d_conf = One)

\* C10: the Date recognizer accepts a value only if, under one of the
\* shapes, the year as written is in 1000..9999, the month in 1..12 and the
\* day in 1..days-in-month; a written year below 100 is never accepted or
\* mapped to 19xx/20xx.
C10_AcceptedOnlyIfWrittenValid ==
    (pc = "done" /\ d_conf = One) =>
        /\ \E f \in DateFormats : ValidUnderShape(f, Trim(d_value))
        /\ d_result # None
        /\ \E f \in DateFormats :
              /\ DateMatches(f, Trim(d_value))
              /\ ExtractComponents(f, Trim(d_value)).year = d_result.year

(***************************************************************************)
(* Claims about TypeScores                                                 *)
(***************************************************************************)
\* the candidate types in the order the specification lists them
CandidateOrder == <<"Integer", "Currency", "Date", "Email", "Phone", "Categorical">>

\* the column score the struct holds for a candidate type
ScoreFor(scores, T) ==
    CASE T = "Integer" -> scores.numeric
      [] T = "Currency" -> scores.currency
      [] T = "Date" -> scores.date
      [] T = "Email" -> scores.email
      [] T = "Phone" -> scores.phone
      [] T = "Categorical" -> scores.categorical

\* the recognizer confidence of one value for a candidate type
ConfidenceFor(T, v) ==
    CASE T = "Integer" -> NumericDetectConfidence(v)
      [] T = "Currency" -> CurrencyDetectConfidence(v)
      [] T = "Date" -> DateDetectConfidence(v)
      [] T = "Email" -> EmailDetectConfidence(v)
      [] T = "Phone" -> PhoneDetectConfidence(v)
      [] T = "Categorical" -> CategoricalDetectConfidence(v)

PerfectTypes(scores) ==
    {i \in 1..Len(CandidateOrder) : ScoreFor(scores, CandidateOrder[i]) = One}

NonNullRows(values) == {i \in 1..Len(values) : Trim(values[i]) # <<>>}

RECURSIVE SumOver(_, _, _)
SumOver(rows, T, values) ==
    IF rows = {} THEN Zero
    ELSE LET i == CHOOSE r \in rows : TRUE
         IN  FAdd(ConfidenceFor(T, Trim(values[i])), SumOver(rows \ {i}, T, values))

\* C2: for a column with a non-null value and every candidate type T, the
\* score from_column gives T is 1.0 iff every trimmed non-null value has
\* confidence exactly 1.0 for T, and otherwise it is the mean of the
\* confidences over the non-null values only.
C2_ScoreUnanimousOrMean ==
    (pc \in {"scored", "done"} /\ NonNullRows(sc_values) # {}) =>
        \A k \in 1..Len(CandidateOrder) :
            LET T == CandidateOrder[k]
                V == NonNullRows(sc_values)
                unanimous == \A i \in V : ConfidenceFor(T, Trim(sc_values[i])) = One
            IN  /\ (ScoreFor(sc_scores, T) = One) <=> unanimous
                /\ ~unanimous =>
                      ScoreFor(sc_scores, T) =
                          FDiv(SumOver(V, T, sc_values), FromInt(Cardinality(V)))

\* from_column has scored a column that has a null cell and whose non-null
\* values are not all numbers
C2_Witness ==
    /\ pc = "scored"
    /\ NonNullRows(sc_values) # {}
    /\ NonNullRows(sc_values) # 1..Len(sc_values)
    /\ FGt(sc_scores.numeric, Zero) /\ FLt(sc_scores.numeric, One)

(***************************************************************************)
(* Claims about CSV::infer_column_types                                    *)
(***************************************************************************)
InferredColumns == IF pc = "inferred" THEN 1..Len(csv_columns) ELSE {}

\* what infer_column_types stored for column i
Emitted(i) == csv_columns[i].metadata.some

\* the type the first pass selects for a column
FirstPass(values) == BestType(FromColumn(values)).data_type

\* the distinct trimmed non-null values of a column
DistinctValues(values) == {Trim(values[i]) : i \in NonNullRows(values)}

HasFraction(v) == \E k \in 1..Len(v) : v[k] = "."

\* C3: a column whose non-null values are all definite numeric matches is
\* reported as Decimal if one of them has a fractional part, else as Integer.
C3_DecimalWhenFractional ==
    \A i \in InferredColumns :
        LET values == csv_columns[i].values
            V == NonNullRows(values)
        IN  (V # {} /\ \A r \in V : NumericIsDefiniteMatch(Trim(values[r]))) =>
                Emitted(i).data_type =
                    (IF \E r \in V : HasFraction(Trim(values[r])) THEN "Decimal" ELSE "Integer")

C6_UpgradeNeedsHalfNonNull ==
    \A i \in InferredColumns :
        LET values == csv_columns[i].values
        IN  (FirstPass(values) = "Text" /\ Emitted(i).data_type = "Categorical") =>
                2 * Cardinality(NonNullRows(values)) >= csv_row_count

\* C7: every column emitted as Categorical carries a confidence above 0.7.
C7_CategoricalConfidenceAboveThreshold ==
    \A i \in InferredColumns :
        Emitted(i).data_type = "Categorical" => FGt(Emitted(i).confidence, Tenths(7))

(***************************************************************************)
(* Claims about CategoricalType::analyze_column                            *)
(***************************************************************************)
\* C8: analyze_column never answers is_categorical = true for a column more
\* than 5% of whose non-null values are distinct, whatever the header.
C8_NeverCategoricalAboveFivePercent ==
    pc = "done" =>
        (100 * Cardinality(DistinctValues(cat_values)) > 5 * Cardinality(NonNullRows(cat_values))
            => ~cat_result.is_categorical)

(***************************************************************************)
(* Claims about CSV::analyze_single_column                                 *)
(***************************************************************************)
\* C4: a column all of whose cells are empty or whitespace-only (a column
\* without rows among them) is emitted as Text with confidence 0.0, without
\* numeric or text statistics and with an empty anomaly list.
C4_EmptyColumnTextZero ==
    (pc = "done" /\ an_metadata # None /\ NonNullRows(an_values) = {}) =>
        /\ an_metadata.some.data_type = "Text"
        /\ an_metadata.some.confidence = Zero
        /\ an_metadata.some.numeric_stats = None
        /\ an_metadata.some.text_stats = None
        /\ an_metadata.some.anomalies = <<>>

(***************************************************************************)
(* R::normalize applied to a value and then to its own output              *)
(***************************************************************************)
NumericInputs ==
    {pad \o sign \o whole \o fraction :
        pad \in {<<>>, <<" ">>},
        sign \in {<<>>, <<"-">>},
        whole \in {<<>>, <<"0">>, <<"7">>, <<"0", "0", "7">>, <<"1", "2">>, <<"1", ",", "2", "3", "4">>},
        fraction \in {<<>>, <<".">>, <<".", "0">>, <<".", "5">>, <<".", "5", "0">>, <<".", "2", "5">>, <<".", "1", "2", "3", "4", "5", "6", "7", "8", "9", "1">>,
                      <<".", "0", "0", "0", "0", "0", "0", "0", "0", "0", "0", "1">>, <<".", "0", "0", "0", "0", "0", "0", "0", "0", "0", "0", "9">>, <<".", "9", "9", "9", "9", "9", "9", "9", "9", "9", "9", "9">>}}
CurrencyInputs ==
    {prefix \o amount \o suffix :
        prefix \in {<<>>, <<"$">>, <<"$", " ">>, <<"-", "$">>, <<"U", "S", "D">>},
        amount \in {<<>>, <<"5">>, <<"5", ".">>, <<".", "5">>, <<"0", ".", "5">>, <<"1", ",", "2", "3", "4", ".", "5", "6">>, <<"1", "2", ".", "3", "4", "1">>,
                    <<"1", "2", ".", "3", "4", "9">>, <<"9", ".", "9", "9", "9">>, <<"1", ".", "2", ".", "3">>},
        suffix \in {<<>>, <<"U", "S", "D">>, <<" ", "U", "S", "D">>}}
PhoneInputs ==
    {country \o area \o rest :
        country \in {<<>>, <<"+", "1", " ">>, <<"+", "4", "4", "-">>, <<"1", "2", "3", "4", "5", "6">>},
        area \in {<<"(", "5", "5", "5", ")", " ">>, <<"5", "5", "5", "-">>, <<"5", "5", "5">>},
        rest \in {<<"1", "2", "3", "-", "4", "5", "6", "7">>, <<"1", "2", "3", "4", "5", "6", "7">>, <<"1", "2", "3">>}}
EmailInputs ==
    {pad \o local \o <<"@">> \o domain :
        pad \in {<<>>, <<" ">>},
        local \in {<<"a">>, <<"a", "b">>, <<"A", ".", "b">>, <<".", "a">>, <<"a", ".", ".", "b">>},
        domain \in {<<"b", ".", "c", "o">>, <<"B", ".", "C", "O">>, <<"x", ".", "b", ".", "c", "o">>, <<"b", ".", "c">>, <<"b">>}}
NormalizeDateParts == {<<"1">>, <<"0", "2">>, <<"1", "2">>, <<"1", "3">>, <<"3", "1">>, <<"2", "4">>, <<"2", "0", "2", "4">>, <<"0", "0", "2", "4">>}
NormalizeDateInputs ==
    {a \o <<s1>> \o b \o <<s2>> \o c :
        a \in NormalizeDateParts, b \in NormalizeDateParts, c \in NormalizeDateParts,
        s1 \in DateSeps, s2 \in DateSeps}
CategoricalInputs == {<<>>, <<" ">>, <<" ", "y", "e", "s", " ">>, <<"Y", "e", "s">>, <<"a", "b", "c">>, <<"a", " ", "b">>}

NormalizeInputs ==
    [Numeric |-> NumericInputs, Currency |-> CurrencyInputs, Date |-> NormalizeDateInputs,
     Email |-> EmailInputs, Phone |-> PhoneInputs, Categorical |-> CategoricalInputs]

InitNormalize ==
    /\ pc = "call"
    /\ n_type \in DOMAIN NormalizeInputs
    /\ n_value \in NormalizeInputs[n_type]
    /\ n_first = None
    /\ n_second = None
    /\ IdleDate /\ IdleScore /\ IdleCsv /\ IdleCat /\ IdleAn /\ IdleAnomaly /\ IdleTwice /\ IdleStats /\ IdleSql /\ IdleIndex /\ IdleWorkers /\ IdleExec /\ IdleApi /\ IdleSchema /\ IdleDetect

\* R::normalize(n_value)
CallNormalize ==
    /\ pc = "call"
    /\ pc' = "normalized"
    /\ n_first' = Normalize(n_type, n_value)
    /\ UNCHANGED <<n_type, n_value, n_second>>
    /\ UNCHANGED <<dateVars, scoreVars, csvVars, catVars, anVars, anomalyVars, twiceVars, statsVars, sqlVars, indexVars, workerVars, execVars, apiVars, schemaVars, detectVars>>

\* R::normalize(&s) on the Some(s) the first call returned
CallNormalizeAgain ==
    /\ pc = "normalized"
    /\ n_first # None
    /\ pc' = "renormalized"
    /\ n_second' = Normalize(n_type, n_first.some)
    /\ UNCHANGED <<n_type, n_value, n_first>>
    /\ UNCHANGED <<dateVars, scoreVars, csvVars, catVars, anVars, anomalyVars, twiceVars, statsVars, sqlVars, indexVars, workerVars, execVars, apiVars, schemaVars, detectVars>>

NextNormalize == CallNormalize \/ CallNormalizeAgain

SpecNormalize == InitNormalize /\ [][NextNormalize]_vars

(***************************************************************************)
(* Claims about normalize                                                  *)
(***************************************************************************)
\* C11: for every recognizer R and every value v, if R.normalize(v) = Some(s)
\* then R.normalize(s) = Some(s)
C11_NormalizeIdempotent ==
    pc = "renormalized" => n_second = n_first

(***************************************************************************)
(* CSV::detect_anomalies applied to a list of values and an expected type  *)
(***************************************************************************)
MaxAnomalyLen == 2

\* the variants of DataType
DataTypes == {"Integer", "Decimal", "Currency", "Date", "Email", "Phone", "Categorical", "Text"}

\* a null, an integer with a space before it, a decimal, a word, ten digits
\* (Integer and Phone) and three numbers between points
AnomalyCells == {<<" ">>, <<" ", "7">>, <<"5", ".", "0">>, <<"t", "h", "r", "e", "e">>,
                 TenDigits, <<"1", ".", "2", ".", "3">>}
AnomalyColumns == UNION {[1..n -> AnomalyCells] : n \in 0..MaxAnomalyLen}

InitAnomalies ==
    /\ pc = "call"
    /\ da_values \in AnomalyColumns
    /\ da_expected \in DataTypes
    /\ da_anomalies = <<>>
    /\ IdleDate /\ IdleScore /\ IdleCsv /\ IdleCat /\ IdleAn /\ IdleNorm /\ IdleTwice /\ IdleStats /\ IdleSql /\ IdleIndex /\ IdleWorkers /\ IdleExec /\ IdleApi /\ IdleSchema /\ IdleDetect

\* self.detect_anomalies(&da_values, &da_expected)
CallDetectAnomalies ==
    /\ pc = "call"
    /\ pc' = "done"
    /\ \E anomalies \in DetectAnomalies(da_values, da_expected) : da_anomalies' = anomalies
    /\ UNCHANGED <<da_values, da_expected>>
    /\ UNCHANGED <<dateVars, scoreVars, csvVars, catVars, anVars, normVars, twiceVars, statsVars, sqlVars, indexVars, workerVars, execVars, apiVars, schemaVars, detectVars>>

NextAnomalies == CallDetectAnomalies

SpecAnomalies == InitAnomalies /\ [][NextAnomalies]_vars

(***************************************************************************)
(* Claims about CSV::detect_anomalies                                      *)
(***************************************************************************)
\* C12: each anomaly a that detect_anomalies returns has a.found_type #
\* a.expected_type, a.row_index is an index of the list whose cell equals
\* a.value, that cell is non-null, and the anomalies come in strictly
\* increasing row_index order
C12_AnomaliesWellFormed ==
    pc = "done" =>
        /\ \A k \in 1..Len(da_anomalies) :
              LET a == da_anomalies[k]
              IN  /\ a.found_type # a.expected_type
                  /\ a.expected_type = da_expected
                  /\ a.row_index \in 0..(Len(da_values) - 1)
                  /\ da_values[a.row_index + 1] = a.value
                  /\ Trim(a.value) # <<>>
        /\ \A j, k \in 1..Len(da_anomalies) :
              j < k => da_anomalies[j].row_index < da_anomalies[k].row_index

\* an anomaly returned for the row after a null row
C12_Witness ==
    /\ pc = "done"
    /\ Len(da_values) = 2
    /\ Trim(da_values[1]) = <<>>
    /\ Len(da_anomalies) = 1

\* the rows of the list detect_anomalies reported
ReportedRows == {da_anomalies[k].row_index + 1 : k \in 1..Len(da_anomalies)}

\* C13: with expected type Integer, every non-null value that is not an
\* integer is reported as an anomaly, free text and decimals alike
C13_NonIntegersReported ==
    pc = "done" /\ da_expected = "Integer" =>
        \A i \in 1..Len(da_values) :
            Trim(da_values[i]) # <<>> /\ ~MatchesType("Integer", Trim(da_values[i]))
                => i \in ReportedRows

(***************************************************************************)
(* Further claims about CSV::analyze_single_column                         *)
(***************************************************************************)
\* C14: a column whose inferred data_type is Text is emitted with an empty
\* anomaly list, even when some of its values are definite matches for
\* another type
C14_TextHasNoAnomalies ==
    pc = "done" /\ an_metadata # None /\ an_metadata.some.data_type = "Text" =>
        an_metadata.some.anomalies = <<>>

(***************************************************************************)
(* CSV::analyze_single_column called twice on the same column, in one      *)
(* process: the static TYPE_PATTERNS is built by the first call and keeps  *)
(* its order for the second                                                *)
(***************************************************************************)
\* the columns: words, six of them distinct; dates in two formats, one of
\* each; amounts with the symbol before and the code after; ten digits among
\* words; nulls
TwiceColumns ==
    {<<>>,
     <<<<>>, <<" ">>>>,
     <<<<"a">>, <<"b">>, <<"a">>>>,
     <<<<"a">>, <<"b">>, <<"c">>, <<"d">>, <<"e">>, <<"f">>>>,
     <<<<"2", "0", "2", "4", "-", "0", "1", "-", "1", "5">>>>,
     <<<<"2", "0", "2", "4", "-", "0", "1", "-", "1", "5">>, <<"0", "1", "/", "1", "5", "/", "2", "0", "2", "4">>>>,
     <<<<"2", "0", "2", "4", "-", "0", "1", "-", "1", "5">>, <<"0", "1", "/", "1", "5", "/", "2", "0", "2", "4">>, <<"0", "1", "/", "1", "6", "/", "2", "0", "2", "4">>>>,
     <<<<"$", "5">>, <<"5", " ", "U", "S", "D">>>>,
     <<<<"$", "5">>, <<>>, <<"$", "7">>>>,
     <<TenDigits, <<"a", "b", "c">>, <<"a", "b", "c">>>>,
     <<<<"7">>, <<"a", "b", "c">>, <<"0", ".", "5">>>>}

InitTwice ==
    /\ pc = "call"
    /\ tw_values \in TwiceColumns
    /\ tw_order = None
    /\ tw_first = None
    /\ tw_second = None
    /\ IdleDate /\ IdleScore /\ IdleCsv /\ IdleCat /\ IdleAn /\ IdleNorm /\ IdleAnomaly /\ IdleStats /\ IdleSql /\ IdleIndex /\ IdleWorkers /\ IdleExec /\ IdleApi /\ IdleSchema /\ IdleDetect

\* the profile of each value of the column
ProfilesOf(values) == [i \in 1..Len(values) |-> Profile(values[i])] \o <<>>

\* self.analyze_single_column(column), the first use of TYPE_PATTERNS
CallAnalyzeFirst ==
    /\ pc = "call"
    /\ pc' = "once"
    /\ \E outcome \in Eval(ProfilesOf(tw_values),
                           LAMBDA profiles :
                               UNION {{<<order, metadata>> :
                                          metadata \in AnalyzeSingleColumnIn(order, tw_values,
                                                                             profiles)} :
                                         order \in TypeOrders}) :
           /\ tw_order' = Some(outcome[1])
           /\ tw_first' = Some(outcome[2])
    /\ UNCHANGED <<tw_values, tw_second>>
    /\ UNCHANGED <<dateVars, scoreVars, csvVars, catVars, anVars, normVars, anomalyVars, statsVars, sqlVars, indexVars, workerVars, execVars, apiVars, schemaVars, detectVars>>

\* self.analyze_single_column(column) again
CallAnalyzeSecond ==
    /\ pc = "once"
    /\ pc' = "twice"
    /\ \E metadata \in Eval(ProfilesOf(tw_values),
                            LAMBDA profiles :
                                AnalyzeSingleColumnIn(tw_order.some, tw_values, profiles)) :
           tw_second' = Some(metadata)
    /\ UNCHANGED <<tw_values, tw_order, tw_first>>
    /\ UNCHANGED <<dateVars, scoreVars, csvVars, catVars, anVars, normVars, anomalyVars, statsVars, sqlVars, indexVars, workerVars, execVars, apiVars, schemaVars, detectVars>>

NextTwice == CallAnalyzeFirst \/ CallAnalyzeSecond

SpecTwice == InitTwice /\ [][NextTwice]_vars

(***************************************************************************)
(* Claims about analyzing a column twice                                   *)
(***************************************************************************)
\* the found_type of each anomaly, in row order
FoundTypes(anomalies) == [i \in 1..Len(anomalies) |-> anomalies[i].found_type]

\* C15: analyzing the same column twice gives the same data_type, confidence,
\* sample_values (as a set), format_pattern and anomaly found_types, whatever
\* the iteration order of the hash maps and hash sets
C15_TwiceSameMetadata ==
    pc = "twice" =>
        /\ tw_second.some.data_type = tw_first.some.data_type
        /\ tw_second.some.confidence = tw_first.some.confidence
        /\ tw_second.some.sample_values = tw_first.some.sample_values
        /\ tw_second.some.format_pattern = tw_first.some.format_pattern
        /\ FoundTypes(tw_second.some.anomalies) = FoundTypes(tw_first.some.anomalies)

(***************************************************************************)
(* CSV::calculate_numeric_stats applied to the values of a column          *)
(***************************************************************************)
MaxStatsLen == 4

\* the cells: a null, integers, a decimal, an amount, the word NaN (which
\* str::parse::<f64> accepts) and a word it rejects
StatsCells == {<<>>, <<"7">>, <<"-", "2">>, <<"0", ".", "5">>, <<"$", "5">>, <<"N", "a", "N">>, <<"a", "b", "c">>}
StatsColumns == UNION {[1..n -> StatsCells] : n \in 0..MaxStatsLen}

InitStats ==
    /\ pc = "call"
    /\ ns_values \in StatsColumns
    /\ ns_stats = None
    /\ IdleDate /\ IdleScore /\ IdleCsv /\ IdleCat /\ IdleAn /\ IdleNorm /\ IdleAnomaly /\ IdleTwice /\ IdleSql /\ IdleIndex /\ IdleWorkers /\ IdleExec /\ IdleApi /\ IdleSchema /\ IdleDetect

\* self.calculate_numeric_stats(&values)
CallCalculateNumericStats ==
    /\ pc = "call"
    /\ pc' = "done"
    /\ ns_stats' = CalculateNumericStats(ns_values)
    /\ UNCHANGED ns_values
    /\ UNCHANGED <<dateVars, scoreVars, csvVars, catVars, anVars, normVars, anomalyVars, twiceVars, sqlVars, indexVars, workerVars, execVars, apiVars, schemaVars, detectVars>>

NextStats == CallCalculateNumericStats

SpecStats == InitStats /\ [][NextStats]_vars

(***************************************************************************)
(* Claims about CSV::calculate_numeric_stats                               *)
(***************************************************************************)
\* the numbers calculate_numeric_stats parses out of the column, in row order
ParsedNumbers(values) ==
    LET parsed == SelectSeq([i \in 1..Len(values) |-> CleanedNumber(values[i])],
                            LAMBDA o : ~o.none)
    IN  [i \in 1..Len(parsed) |-> parsed[i].some]

\* C16: for a column with n >= 1 parseable values the median is sorted[n/2],
\* the quartiles are sorted[n/4], the median and sorted[3n/4] (indices from
\* zero, all in bounds), and min <= Q1 <= median <= Q3 <= max
C16_QuartilesOrdered ==
    pc = "done" /\ ns_stats # None =>
        LET numbers == ParsedNumbers(ns_values)
            n == Len(numbers)
            sorted == SortNumbers(numbers, n)
            stats == ns_stats.some
        IN  /\ n >= 1
            /\ {(n \div 4) + 1, (n \div 2) + 1, ((3 * n) \div 4) + 1} \subseteq 1..n
            /\ stats.median = sorted[(n \div 2) + 1]
            /\ stats.quartiles = <<sorted[(n \div 4) + 1], stats.median,
                                   sorted[((3 * n) \div 4) + 1]>>
            /\ FLe(stats.min, stats.quartiles[1])
            /\ FLe(stats.quartiles[1], stats.median)
            /\ FLe(stats.median, stats.quartiles[3])
            /\ FLe(stats.quartiles[3], stats.max)

\* C17: with exactly one parseable value std_dev is 0, and std_dev is always
\* a number that is at least 0
C17_StdDevDefined ==
    pc = "done" /\ ns_stats # None =>
        /\ Len(ParsedNumbers(ns_values)) = 1 => ns_stats.some.std_dev = Zero
        /\ ~IsNaN(ns_stats.some.std_dev)
        /\ FGe(ns_stats.some.std_dev, Zero)

\* C18: in the metadata of analyze_single_column numeric_stats is present
\* exactly when data_type is Integer, Decimal or Currency
C18_NumericStatsIffNumeric ==
    pc = "done" /\ an_metadata # None =>
        (an_metadata.some.numeric_stats # None
            <=> an_metadata.some.data_type \in {"Integer", "Decimal", "Currency"})

(***************************************************************************)
(* CSV::determine_sql_type applied to the type and the statistics of a     *)
(* column, as analyze_single_column calls it: nullable is null_count > 0   *)
(***************************************************************************)
MaxDistinct == 11

\* integers around 0, u16::MAX, i32::MIN and i32::MAX, in ascending order
SqlIntegers ==
    <<WrittenInt(TRUE, <<"2", "1", "4", "7", "4", "8", "3", "6", "4", "9">>), WrittenInt(TRUE, <<"2", "1", "4", "7", "4", "8", "3", "6", "4", "8">>),
      WrittenInt(TRUE, <<"1">>), WrittenInt(FALSE, <<"0">>),
      WrittenInt(FALSE, <<"6", "5", "5", "3", "5">>), WrittenInt(FALSE, <<"6", "5", "5", "3", "6">>),
      WrittenInt(FALSE, <<"2", "1", "4", "7", "4", "8", "3", "6", "4", "7">>), WrittenInt(FALSE, <<"2", "1", "4", "7", "4", "8", "3", "6", "4", "8">>)>>

\* the NumericStats of a column of integers: min <= mean <= max
IntegerStats ==
    {[min |-> SqlIntegers[i], max |-> SqlIntegers[j], mean |-> SqlIntegers[k]] :
        i \in 1..Len(SqlIntegers), j \in 1..Len(SqlIntegers), k \in 1..Len(SqlIntegers)}

\* the NumericStats of three columns of decimals
DecimalStats ==
    {[min |-> [neg |-> FALSE, whole |-> <<"0">>, fraction |-> <<"5">>],
      max |-> [neg |-> FALSE, whole |-> <<"1", "2">>, fraction |-> <<"2", "5">>],
      mean |-> [neg |-> FALSE, whole |-> <<"6">>, fraction |-> <<"3", "7", "5">>]],
     [min |-> [neg |-> TRUE, whole |-> <<"1", "5", "0">>, fraction |-> <<"0">>],
      max |-> [neg |-> FALSE, whole |-> <<"2">>, fraction |-> <<"5", "0">>],
      mean |-> [neg |-> TRUE, whole |-> <<"7", "3">>, fraction |-> <<"7", "5">>]],
     [min |-> [neg |-> FALSE, whole |-> <<"0">>, fraction |-> <<"2", "5">>],
      max |-> [neg |-> FALSE, whole |-> <<"0">>, fraction |-> <<"2", "5">>],
      mean |-> [neg |-> FALSE, whole |-> <<"0">>, fraction |-> <<"2", "5">>]]}

\* the k-th word: w1, w2, ...
Word(k) == <<"w">> \o U32ToString(k)

\* a value of 51 characters
Long51 == [i \in 1..51 |-> "x"]

\* a column of k distinct words, the last of them `repeats` times more, and
\* `nulls` empty cells
WordColumn(k, repeats, nulls) ==
    [i \in 1..k |-> Word(i)] \o [i \in 1..repeats |-> Word(k)] \o [i \in 1..nulls |-> <<>>]

\* the columns: words, one-letter values, a value with a quote, a long value
SqlColumns ==
    {WordColumn(k, repeats, nulls) : k \in 0..MaxDistinct, repeats \in 0..2, nulls \in 0..1}
    \cup {<<<<"y">>, <<"n">>, <<"y">>>>, <<<<"i", "t", "'", "s">>, <<"n", "o">>, <<"n", "o">>, <<>>>>,
          <<Long51, <<"n", "o">>>>, <<<<" ", "y", "e", "s">>, <<"y", "e", "s", " ">>, <<"n", "o">>>>}

\* the data_type, the statistics and the null_count analyze_single_column has
\* when it calls determine_sql_type
InitSql ==
    /\ pc = "call"
    /\ \/ /\ sq_type \in {"Text", "Email", "Phone", "Categorical"}
          /\ sq_values \in SqlColumns
          /\ sq_null_count = Cardinality({i \in 1..Len(sq_values) : Trim(sq_values[i]) = <<>>})
          /\ sq_numeric_stats = None
          /\ sq_text_stats = CalculateTextStats(sq_values)
       \/ /\ sq_type \in {"Integer", "Decimal", "Currency", "Date"}
          /\ sq_values = <<>>
          /\ sq_null_count \in 0..1
          /\ sq_numeric_stats \in
                 IF sq_type = "Integer"
                 THEN {None} \cup {Some(s) : s \in {t \in IntegerStats :
                                                       /\ WrittenLe(t.min, t.mean)
                                                       /\ WrittenLe(t.mean, t.max)}}
                 ELSE IF sq_type = "Decimal" THEN {None} \cup {Some(s) : s \in DecimalStats}
                 ELSE {None}
          /\ sq_text_stats = None
    /\ sq_sql = <<>>
    /\ IdleDate /\ IdleScore /\ IdleCsv /\ IdleCat /\ IdleAn /\ IdleNorm /\ IdleAnomaly /\ IdleTwice /\ IdleStats /\ IdleIndex /\ IdleWorkers /\ IdleExec /\ IdleApi /\ IdleSchema /\ IdleDetect

\* self.determine_sql_type(&inferred_type, &numeric_stats, &text_stats, null_count > 0)
CallDetermineSqlType ==
    /\ pc = "call"
    /\ pc' = "done"
    /\ sq_sql' = DetermineSqlType(sq_type, sq_numeric_stats, sq_text_stats, sq_null_count > 0)
    /\ UNCHANGED <<sq_values, sq_type, sq_null_count, sq_numeric_stats, sq_text_stats>>
    /\ UNCHANGED <<dateVars, scoreVars, csvVars, catVars, anVars, normVars, anomalyVars, twiceVars, statsVars, indexVars, workerVars, execVars, apiVars, schemaVars, detectVars>>

NextSql == CallDetermineSqlType

SpecSql == InitSql /\ [][NextSql]_vars

(***************************************************************************)
(* Claims about CSV::determine_sql_type                                    *)
(***************************************************************************)
\* the place of a number in SqlIntegers
Rank(x) == CHOOSE i \in 1..Len(SqlIntegers) : SqlIntegers[i] = x

\* the suffix the claims expect on the declaration of the column
NullSuffix == IF sq_null_count > 0 THEN <<" ", "N", "U", "L", "L">> ELSE <<" ", "N", "O", "T", " ", "N", "U", "L", "L">>

\* C19: for an Integer column with numeric stats the declaration is SMALLINT
\* UNSIGNED when min >= 0 and max <= 65535, INT UNSIGNED when min >= 0 and
\* 65535 < max <= 2^31-1, INT when -2^31 <= min < 0 and max <= 2^31-1, BIGINT
\* otherwise; it ends with " NULL" when null_count > 0, else with " NOT NULL"
C19_IntegerSqlType ==
    pc = "done" /\ sq_type = "Integer" /\ sq_numeric_stats # None =>
        LET lo == Rank(sq_numeric_stats.some.min)
            hi == Rank(sq_numeric_stats.some.max)
            zero == Rank(WrittenInt(FALSE, <<"0">>))
            u16_max == Rank(WrittenInt(FALSE, <<"6", "5", "5", "3", "5">>))
            i32_max == Rank(WrittenInt(FALSE, <<"2", "1", "4", "7", "4", "8", "3", "6", "4", "7">>))
            i32_min == Rank(WrittenInt(TRUE, <<"2", "1", "4", "7", "4", "8", "3", "6", "4", "8">>))
            expected ==
                IF lo >= zero /\ hi <= u16_max THEN <<"S", "M", "A", "L", "L", "I", "N", "T", " ", "U", "N", "S", "I", "G", "N", "E", "D">>
                ELSE IF lo >= zero /\ u16_max < hi /\ hi <= i32_max THEN <<"I", "N", "T", " ", "U", "N", "S", "I", "G", "N", "E", "D">>
                ELSE IF i32_min <= lo /\ lo < zero /\ hi <= i32_max THEN <<"I", "N", "T">>
                ELSE <<"B", "I", "G", "I", "N", "T">>
        IN  sq_sql = expected \o NullSuffix

\* an Integer column with nulls whose max is 2^31: BIGINT NULL
C19_Witness ==
    /\ pc = "done" /\ sq_type = "Integer" /\ sq_numeric_stats # None
    /\ sq_numeric_stats.some.min = WrittenInt(FALSE, <<"0">>)
    /\ sq_numeric_stats.some.max = WrittenInt(FALSE, <<"2", "1", "4", "7", "4", "8", "3", "6", "4", "8">>)
    /\ sq_null_count > 0
    /\ sq_sql = <<"B", "I", "G", "I", "N", "T", " ", "N", "U", "L", "L">>

\* str::starts_with
StartsWith(s, prefix) == Len(s) >= Len(prefix) /\ SubSeq(s, 1, Len(prefix)) = prefix

\* a quoted value of an ENUM without its quotes, each doubled quote single again
RECURSIVE Undoubled(_)
Undoubled(s) ==
    IF s = <<>> THEN <<>>
    ELSE IF Len(s) >= 2 /\ s[1] = "'" /\ s[2] = "'" THEN <<"'">> \o Undoubled(Tail(Tail(s)))
    ELSE <<Head(s)>> \o Undoubled(Tail(s))

\* the values an ENUM(...) declaration lists, in order (none of the values of
\* the columns holds a comma)
EnumValues(sql) ==
    LET body == SubSeq(sql, 6, Len(sql) - Len(NullSuffix) - 1)
        items == IF body = <<>> THEN <<>> ELSE SplitOn(body, {","})
    IN  [i \in 1..Len(items) |->
            LET item == TrimStart(items[i]) IN Undoubled(SubSeq(item, 2, Len(item) - 1))]

\* C20: for a Categorical column with max_length > 1, the declaration is an
\* ENUM that lists every distinct non-null value once, most frequent first,
\* when there are at most 10 distinct values and max_length <= 50, and
\* VARCHAR(min(max_length, 255)) otherwise
C20_EnumListsEveryValue ==
    pc = "done" /\ sq_type = "Categorical" /\ sq_text_stats # None
                /\ sq_text_stats.some.max_length > 1 =>
        LET trimmed == FilterNonEmpty([i \in 1..Len(sq_values) |-> Trim(sq_values[i])])
            counts == ValueCounts(trimmed)
            max_length == sq_text_stats.some.max_length
            listed == EnumValues(sq_sql)
        IN  IF Cardinality(DOMAIN counts) <= 10 /\ max_length <= 50
            THEN /\ StartsWith(sq_sql, <<"E", "N", "U", "M", "(">>)
                 /\ sq_sql = GenerateEnumType([i \in 1..Len(listed) |-> <<listed[i], 0>>])
                             \o NullSuffix
                 /\ Range(listed) = DOMAIN counts
                 /\ Len(listed) = Cardinality(DOMAIN counts)
                 /\ \A i \in 1..Len(listed) : \A j \in i..Len(listed) :
                        counts[listed[i]] >= counts[listed[j]]
            ELSE sq_sql = Varchar(UMin(max_length, 255)) \o NullSuffix

(***************************************************************************)
(* CSV::should_create_index applied to the metadata of a column: of the    *)
(* ColumnMetadata it reads data_type, row_count, null_count and            *)
(* distinct_count                                                          *)
(***************************************************************************)
\* row counts around the ratios and the bounds the function compares with
IndexRowCounts == {0, 1, 2, 10, 20, 1000, 1001, 10000, 10001, 20002}
\* the counts of the nulls and of the distinct values of such columns
IndexCounts == {0, 1, 2, 3, 5, 6, 10, 11, 100, 101, 300, 301, 500, 501, 1000, 1001,
                5000, 5001, 10000, 10001}

\* the metadata of a column: its distinct values are among its non-null rows
IndexColumns ==
    {[data_type |-> t, row_count |-> r, null_count |-> n, distinct_count |-> d] :
        t \in DataTypes, r \in IndexRowCounts,
        n \in {c \in IndexCounts : c <= 10001}, d \in {c \in IndexCounts : c <= 10001}}

InitIndex ==
    /\ pc = "call"
    /\ ix_col \in {Some(col) : col \in {c \in IndexColumns :
                                           c.null_count + c.distinct_count <= c.row_count}}
    /\ ix_result = FALSE
    /\ IdleDate /\ IdleScore /\ IdleCsv /\ IdleCat /\ IdleAn /\ IdleNorm /\ IdleAnomaly /\ IdleTwice /\ IdleStats /\ IdleSql /\ IdleWorkers /\ IdleExec /\ IdleApi /\ IdleSchema /\ IdleDetect

\* self.should_create_index(col)
CallShouldCreateIndex ==
    /\ pc = "call"
    /\ pc' = "done"
    /\ ix_result' = ShouldCreateIndex(ix_col.some)
    /\ UNCHANGED ix_col
    /\ UNCHANGED <<dateVars, scoreVars, csvVars, catVars, anVars, normVars, anomalyVars, twiceVars, statsVars, sqlVars, workerVars, execVars, apiVars, schemaVars, detectVars>>

NextIndex == CallShouldCreateIndex

SpecIndex == InitIndex /\ [][NextIndex]_vars

(***************************************************************************)
(* Claims about CSV::should_create_index                                   *)
(***************************************************************************)
\* C21: an index is recommended exactly when the type is Integer, Date or
\* Email with distinct/rows > 0.1 and nulls/rows < 0.5, or Categorical with
\* 1 < distinct <= 1000 and nulls/rows < 0.3, or Text with distinct/rows > 0.5,
\* 1 < distinct <= 10000 and nulls/rows < 0.1; never for Decimal, Currency or
\* Phone, nor for a column without rows
C21_IndexExactlyWhen ==
    pc = "done" =>
        LET col == ix_col.some
            rows == col.row_count
            \* a / rows > k / 10 and a / rows < k / 10, on integers
            Above(a, k) == rows > 0 /\ 10 * a > k * rows
            Below(a, k) == rows > 0 /\ 10 * a < k * rows
        IN  ix_result <=>
                /\ rows # 0
                /\ \/ /\ col.data_type \in {"Integer", "Date", "Email"}
                      /\ Above(col.distinct_count, 1) /\ Below(col.null_count, 5)
                   \/ /\ col.data_type = "Categorical"
                      /\ 1 < col.distinct_count /\ col.distinct_count <= 1000
                      /\ Below(col.null_count, 3)
                   \/ /\ col.data_type = "Text"
                      /\ Above(col.distinct_count, 5)
                      /\ 1 < col.distinct_count /\ col.distinct_count <= 10000
                      /\ Below(col.null_count, 1)

\* a Categorical column of exactly 1000 distinct values gets an index
C21_Witness ==
    /\ pc = "done" /\ ix_result
    /\ ix_col.some.data_type = "Categorical"
    /\ ix_col.some.distinct_count = 1000

(***************************************************************************)
(* CSV::analyze_with_workers: the main thread posts one message for each   *)
(* column, the workers answer in parallel, the event loop delivers their   *)
(* answers to the onmessage callbacks, whose spawned tasks send them into  *)
(* the channel the main thread receives from                               *)
(***************************************************************************)
MaxWorkerColumns == 3
MaxWorkers == 4

\* the CSV: col1, col2, ..., each with values of its own
WorkerColumns(n) == [i \in 1..n |-> [header |-> HeaderOf(i), values |-> <<Word(i), Word(i + 1)>>]]

InitWorkers ==
    /\ pc = "call"
    /\ wk_columns \in {WorkerColumns(n) : n \in 0..MaxWorkerColumns}
    /\ wk_num_workers \in 1..MaxWorkers
    /\ wk_inbox = [w \in 1..wk_num_workers |-> <<>>]
    /\ wk_events = [w \in 1..wk_num_workers |-> <<>>]
    /\ wk_tasks = {}
    /\ wk_channel = <<>>
    /\ wk_completed = 0
    /\ wk_slots = <<>>
    /\ wk_received = 0
    /\ wk_terminated = FALSE
    /\ wk_result = None
    /\ IdleDate /\ IdleScore /\ IdleCsv /\ IdleCat /\ IdleAn /\ IdleNorm /\ IdleAnomaly /\ IdleTwice /\ IdleStats /\ IdleSql /\ IdleIndex /\ IdleExec /\ IdleApi /\ IdleSchema /\ IdleDetect

\* analyze_with_workers up to its first await: the workers are created, the
\* messages posted, columns and received set up; the loop is not entered when
\* there is no column
CallAnalyzeWithWorkers ==
    LET total_columns == Len(wk_columns)
        chunks == DistributeWork(total_columns, wk_num_workers)
        slots == [i \in 1..total_columns |-> None]
    IN  /\ pc = "call"
        /\ wk_inbox' = [w \in 1..wk_num_workers |->
                           [k \in 1..Len(chunks[w]) |-> MessageFor(wk_columns, chunks[w][k])]]
        /\ wk_slots' = slots
        /\ wk_received' = 0
        /\ IF LoopEnds(0, total_columns)
           THEN /\ wk_terminated' = TRUE
                /\ wk_result' = Some(FilterMap(slots))
                /\ pc' = "done"
           ELSE /\ pc' = "receiving"
                /\ UNCHANGED <<wk_terminated, wk_result>>
        /\ UNCHANGED <<wk_columns, wk_num_workers, wk_events, wk_tasks, wk_channel, wk_completed>>
        /\ UNCHANGED <<dateVars, scoreVars, csvVars, catVars, anVars, normVars, anomalyVars, twiceVars, statsVars, sqlVars, indexVars, execVars, apiVars, schemaVars, detectVars>>

\* the onmessage callback of worker_main in the Worker w: it answers the
\* first message of its queue
WorkerMain(w) ==
    /\ ~wk_terminated
    /\ wk_inbox[w] # <<>>
    /\ wk_inbox' = [wk_inbox EXCEPT ![w] = Tail(@)]
    /\ wk_events' = [wk_events EXCEPT ![w] = Append(@, ResponseTo(Head(wk_inbox[w])))]
    /\ UNCHANGED <<pc, wk_columns, wk_num_workers, wk_tasks, wk_channel, wk_completed, wk_slots,
                   wk_received, wk_terminated, wk_result>>
    /\ UNCHANGED <<dateVars, scoreVars, csvVars, catVars, anVars, normVars, anomalyVars, twiceVars, statsVars, sqlVars, indexVars, execVars, apiVars, schemaVars, detectVars>>

\* the onmessage callback analyze_with_workers set on the Worker w, run by
\* the event loop while the main thread awaits: it counts the response and
\* spawns the task that will send it
OnMessage(w) ==
    /\ pc = "receiving"
    /\ wk_events[w] # <<>>
    /\ wk_events' = [wk_events EXCEPT ![w] = Tail(@)]
    /\ wk_completed' = wk_completed + 1
    /\ wk_tasks' = wk_tasks \cup {Head(wk_events[w])}
    /\ UNCHANGED <<pc, wk_columns, wk_num_workers, wk_inbox, wk_channel, wk_slots,
                   wk_received, wk_terminated, wk_result>>
    /\ UNCHANGED <<dateVars, scoreVars, csvVars, catVars, anVars, normVars, anomalyVars, twiceVars, statsVars, sqlVars, indexVars, execVars, apiVars, schemaVars, detectVars>>

\* a task of spawn_local: sender.send(response).await, which completes when
\* the channel, of buffer column_count, has room
SendResponse(response) ==
    /\ pc = "receiving"
    /\ response \in wk_tasks
    /\ Len(wk_channel) < Len(wk_columns) + 1
    /\ wk_tasks' = wk_tasks \ {response}
    /\ wk_channel' = Append(wk_channel, response)
    /\ UNCHANGED <<pc, wk_columns, wk_num_workers, wk_inbox, wk_events, wk_completed, wk_slots,
                   wk_received, wk_terminated, wk_result>>
    /\ UNCHANGED <<dateVars, scoreVars, csvVars, catVars, anVars, normVars, anomalyVars, twiceVars, statsVars, sqlVars, indexVars, execVars, apiVars, schemaVars, detectVars>>

\* one turn of the receiving loop, receiver.next().await giving a response;
\* when the loop ends with it, the workers are terminated and the CSVFile built
Receive ==
    LET response == Head(wk_channel)
        slots == Store(wk_slots, wk_received, response)
    IN  /\ pc = "receiving"
        /\ wk_channel # <<>>
        /\ wk_channel' = Tail(wk_channel)
        /\ wk_slots' = slots
        /\ wk_received' = wk_received + 1
        /\ IF LoopEnds(wk_received + 1, Len(wk_columns))
           THEN /\ wk_terminated' = TRUE
                /\ wk_result' = Some(FilterMap(slots))
                /\ pc' = "done"
           ELSE UNCHANGED <<pc, wk_terminated, wk_result>>
        /\ UNCHANGED <<wk_columns, wk_num_workers, wk_inbox, wk_events, wk_tasks, wk_completed>>
        /\ UNCHANGED <<dateVars, scoreVars, csvVars, catVars, anVars, normVars, anomalyVars, twiceVars, statsVars, sqlVars, indexVars, execVars, apiVars, schemaVars, detectVars>>

NextWorkers ==
    \/ CallAnalyzeWithWorkers
    \/ \E w \in 1..MaxWorkers : w <= wk_num_workers /\ WorkerMain(w)
    \/ \E w \in 1..MaxWorkers : w <= wk_num_workers /\ OnMessage(w)
    \/ \E response \in wk_tasks : SendResponse(response)
    \/ Receive

SpecWorkers == InitWorkers /\ [][NextWorkers]_vars

(***************************************************************************)
(* Claims about CSV::analyze_with_workers                                  *)
(***************************************************************************)
\* C22: whatever the order in which the responses of the workers arrive, and
\* whatever the number of workers (one or more, more than columns too), the
\* list returned holds one metadata for each column, in column order, each
\* computed from the header and the values of its column
C22_ResultAlignedWithColumns ==
    pc = "done" =>
        /\ wk_result # None
        /\ Len(wk_result.some) = Len(wk_columns)
        /\ \A i \in 1..Len(wk_columns) :
               wk_result.some[i] = MetadataFrom(wk_columns[i].header, wk_columns[i].values)

\* three columns analyzed by four workers
C22_Witness ==
    /\ pc = "done"
    /\ Len(wk_columns) = 3 /\ wk_num_workers = 4
    /\ Len(wk_result.some) = 3

\* the event loop and the workers keep running: the call is made, every worker
\* answers the messages posted to it, every answer is delivered, every spawned
\* task runs and the main thread resumes when the channel holds a response
FairWorkers ==
    /\ WF_vars(CallAnalyzeWithWorkers)
    /\ \A w \in 1..MaxWorkers : WF_vars(w <= wk_num_workers /\ WorkerMain(w))
    /\ \A w \in 1..MaxWorkers : WF_vars(w <= wk_num_workers /\ OnMessage(w))
    /\ WF_vars(\E response \in wk_tasks : SendResponse(response))
    /\ WF_vars(Receive)

SpecWorkersFair == SpecWorkers /\ FairWorkers

\* the column indices whose response the main thread has stored
Stored == {i \in 1..Len(wk_slots) : wk_slots[i] # None}

\* C29: the workers are terminated and the result produced only once one
\* response has been received for every column; the call eventually returns
\* when every worker eventually answers every message posted to it; with no
\* column it returns without waiting for a response
C29_ReturnsAfterEveryResponse ==
    /\ [](wk_terminated \/ wk_result # None \/ pc = "done" =>
             /\ wk_received = Len(wk_columns)
             /\ Stored = 1..Len(wk_columns))
    /\ <>(pc = "done" /\ wk_terminated /\ wk_result # None)
    /\ [][pc = "call" /\ wk_columns = <<>> => pc' = "done" /\ wk_completed' = 0]_vars

\* three columns, every response counted, the workers terminated
C29_Witness ==
    /\ pc = "done" /\ wk_terminated
    /\ Len(wk_columns) = 3 /\ wk_completed = 3 /\ wk_received = 3

(***************************************************************************)
(* ParallelExecutor::process_columns applied to a list of columns          *)
(***************************************************************************)
MaxExecColumns == 2

\* lengths around one and two chunks
ColumnLengths == {0, 1, 3, MIN_CHUNK_SIZE, MIN_CHUNK_SIZE + 1, 2 * MIN_CHUNK_SIZE + 1}

\* a column of i32: the numbers from `first` on
CountingColumn(first, len) == [k \in 1..len |-> first + k - 1]

\* the lists of columns: the i-th column starts at 1000 * i
ExecColumns ==
    UNION {{[i \in 1..n |-> CountingColumn(1000 * i, lens[i])] : lens \in [1..n -> ColumnLengths]} :
              n \in 0..MaxExecColumns}

InitExec ==
    /\ pc = "call"
    /\ ex_columns \in ExecColumns
    /\ ex_kind \in ProcessorKinds
    /\ ex_results = None
    /\ IdleDate /\ IdleScore /\ IdleCsv /\ IdleCat /\ IdleAn /\ IdleNorm /\ IdleAnomaly /\ IdleTwice /\ IdleStats /\ IdleSql /\ IdleIndex /\ IdleWorkers /\ IdleApi /\ IdleSchema /\ IdleDetect

\* executor.process_columns(&columns, processor, combiner)
CallProcessColumns ==
    /\ pc = "call"
    /\ pc' = "done"
    /\ \E results \in ProcessColumns(ex_kind, ex_columns) : ex_results' = Some(results)
    /\ UNCHANGED <<ex_columns, ex_kind>>
    /\ UNCHANGED <<dateVars, scoreVars, csvVars, catVars, anVars, normVars, anomalyVars, twiceVars, statsVars, sqlVars, indexVars, workerVars, apiVars, schemaVars, detectVars>>

NextExec == CallProcessColumns

SpecExec == InitExec /\ [][NextExec]_vars

(***************************************************************************)
(* Claims about ParallelExecutor::process_columns                          *)
(***************************************************************************)
\* combiner(...combiner(combiner(r1, r2), r3)..., rk) for k >= 1
RECURSIVE ReductionOf(_, _)
ReductionOf(kind, rs) ==
    IF Len(rs) = 1 THEN rs[1]
    ELSE Combiner(kind, ReductionOf(kind, SubSeq(rs, 1, Len(rs) - 1)), rs[Len(rs)])

\* the concatenation of a sequence of sequences
RECURSIVE Flatten(_)
Flatten(seqs) == IF seqs = <<>> THEN <<>> ELSE Head(seqs) \o Flatten(Tail(seqs))

\* C23: process_columns returns one result for each column, in the order of
\* the columns, whatever the scheduling; each result is the combiner-reduction
\* of the processor applied to the consecutive chunks of at most 1024 elements
\* of the column, which cover its elements once each; an empty column gives
\* processor(&[])
C23_ResultIsReductionOfChunks ==
    pc = "done" =>
        /\ ex_results # None
        /\ Len(ex_results.some) = Len(ex_columns)
        /\ \A i \in 1..Len(ex_columns) :
               LET chunks == Chunks(ex_columns[i], MIN_CHUNK_SIZE)
               IN  /\ \A k \in 1..Len(chunks) : Len(chunks[k]) \in 1..1024
                   /\ Flatten(chunks) = ex_columns[i]
                   /\ ex_results.some[i] =
                          IF ex_columns[i] = <<>> THEN Processor(ex_kind, <<>>)
                          ELSE ReductionOf(ex_kind, [k \in 1..Len(chunks) |->
                                                        Processor(ex_kind, chunks[k])])

(***************************************************************************)
(* CSV::infer_column_types applied to one column of words, some of which   *)
(* appear three times or more and some less                                *)
(***************************************************************************)
FrequencyDistinct == {5, 10}
FrequencyTotals == {205, 230}
RareCounts == {1, 2}

\* a column of `total` cells with `distinct` distinct words: `frequent` of them
\* appear 3 times or more (the first fills the column, the others 3 times
\* each), the others `rare` times each
FrequencyColumn(distinct, frequent, rare, total) ==
    LET others == 3 * (frequent - 1) + rare * (distinct - frequent)
    IN  [i \in 1..(total - others) |-> Word(1)]
        \o [i \in 1..(3 * (frequent - 1)) |-> Word(2 + ((i - 1) \div 3))]
        \o [i \in 1..(rare * (distinct - frequent)) |-> Word(frequent + 1 + ((i - 1) \div rare))]

InitFrequency ==
    /\ pc = "constructed"
    /\ \E distinct \in FrequencyDistinct, rare \in RareCounts, total \in FrequencyTotals :
          \E frequent \in 1..distinct :
              csv_columns = <<NewColumn(1, FrequencyColumn(distinct, frequent, rare, total))>>
    /\ csv_row_count = Len(csv_columns[1].values)
    /\ csv_result = None
    /\ IdleDate /\ IdleScore /\ IdleCat /\ IdleAn /\ IdleNorm /\ IdleAnomaly /\ IdleTwice /\ IdleStats /\ IdleSql /\ IdleIndex /\ IdleWorkers /\ IdleExec /\ IdleApi /\ IdleSchema /\ IdleDetect

SpecFrequency == InitFrequency /\ [][NextInfer]_vars

\* the number of distinct values of the column that appear 3 times or more
FrequentValues(values) ==
    Cardinality({v \in DistinctValues(values) :
                    Cardinality({r \in NonNullRows(values) : Trim(values[r]) = v}) >= 3})

\* C27: a column whose first pass selected Text, with at least 20 non-null
\* values, at least half of its cells non-null, fewer than 5% of them
\* distinct and distinct values of average length below 50, is upgraded to
\* Categorical whenever at least 70% of its distinct values appear 3 times or
\* more, also when exactly 70% do.
C27_UpgradedAtSeventyPercent ==
    \A i \in InferredColumns :
        LET values == csv_columns[i].values
            nonNull == Cardinality(NonNullRows(values))
            distinct == DistinctValues(values)
        IN  (/\ FirstPass(values) = "Text"
             /\ nonNull >= 20
             /\ 2 * nonNull >= Len(values)
             /\ 100 * Cardinality(distinct) < 5 * nonNull
             /\ SumLen(distinct) < 50 * Cardinality(distinct)
             /\ 10 * FrequentValues(values) >= 7 * Cardinality(distinct))
            => Emitted(i).data_type = "Categorical"

(***************************************************************************)
(* A CSV after from_string, and calls of infer_column_types,               *)
(* set_column_metadata and get_column_metadata on it, in any order         *)
(***************************************************************************)
MaxCalls == 3

\* the columns of values: numbers, words, and no rows at all (headers only)
ApiValues == {<<<<"7">>, <<"8">>>>, <<<<"a", "b", "c">>, <<"x", "y">>>>, <<>>}
ApiCsvs ==
    UNION {{[i \in 1..n |-> NewColumn(i, vs[i])] :
               vs \in {f \in [1..n -> ApiValues] : \A i \in 1..n : Len(f[i]) = Len(f[1])}} :
              n \in 1..MaxColumns}

\* the indexes passed: of a column, one past the last, and the 999 of the tests
ApiIndexes == 0..MaxColumns \cup {999}

\* the JsValues passed to set_column_metadata: two metadata objects and undefined
ApiJsValues ==
    {ToValue([name |-> HeaderOf(1), data_type |-> "Text", confidence |-> One]),
     ToValue([name |-> <<"x">>, data_type |-> "Integer", confidence |-> Tenths(5)]),
     [js |-> "undefined"]}

\* CSV::from_string has returned Ok(CSV { columns, row_count })
InitApi ==
    /\ pc = "ready"
    /\ csv_columns \in ApiCsvs
    /\ csv_row_count = Len(csv_columns[1].values)
    /\ csv_result = None
    /\ api_call = None /\ api_calls = 0 /\ api_stored = {}
    /\ IdleDate /\ IdleScore /\ IdleCat /\ IdleAn /\ IdleNorm /\ IdleAnomaly /\ IdleTwice /\ IdleStats /\ IdleSql /\ IdleIndex /\ IdleWorkers /\ IdleExec /\ IdleSchema /\ IdleDetect

\* csv.infer_column_types()
ApiInferColumnTypes ==
    /\ pc = "ready" /\ api_calls < MaxCalls
    /\ \E out \in {InferColumnTypes(csv_columns)} :
           /\ csv_columns' = out.columns
           /\ csv_result' = Some(out.result)
           /\ api_stored' = api_stored \cup {i \in 0..(Len(csv_columns) - 1) :
                                               out.columns[i + 1].metadata # csv_columns[i + 1].metadata
                                               \/ out.result.ok}
    /\ api_call' = Some([op |-> "infer"])
    /\ api_calls' = api_calls + 1
    /\ UNCHANGED <<pc, csv_row_count>>
    /\ UNCHANGED <<dateVars, scoreVars, catVars, anVars, normVars, anomalyVars, twiceVars, statsVars, sqlVars, indexVars, workerVars, execVars, schemaVars, detectVars>>

\* csv.set_column_metadata(index, js_metadata)
ApiSetColumnMetadata ==
    /\ pc = "ready" /\ api_calls < MaxCalls
    /\ \E index \in ApiIndexes, js_metadata \in ApiJsValues :
          \E out \in {SetColumnMetadata(csv_columns, index, js_metadata)} :
              /\ csv_columns' = out.columns
              /\ csv_result' = Some(out.result)
              /\ api_stored' = IF out.result.ok THEN api_stored \cup {index} ELSE api_stored
              /\ api_call' = Some([op |-> "set", index |-> index, js_metadata |-> js_metadata])
    /\ api_calls' = api_calls + 1
    /\ UNCHANGED <<pc, csv_row_count>>
    /\ UNCHANGED <<dateVars, scoreVars, catVars, anVars, normVars, anomalyVars, twiceVars, statsVars, sqlVars, indexVars, workerVars, execVars, schemaVars, detectVars>>

\* csv.get_column_metadata(index): &self, the CSV is left as it is
ApiGetColumnMetadata ==
    /\ pc = "ready" /\ api_calls < MaxCalls
    /\ \E index \in ApiIndexes :
          /\ csv_result' = Some(GetColumnMetadata(csv_columns, index))
          /\ api_call' = Some([op |-> "get", index |-> index])
    /\ api_calls' = api_calls + 1
    /\ UNCHANGED <<pc, csv_columns, csv_row_count, api_stored>>
    /\ UNCHANGED <<dateVars, scoreVars, catVars, anVars, normVars, anomalyVars, twiceVars, statsVars, sqlVars, indexVars, workerVars, execVars, schemaVars, detectVars>>

NextApi == ApiInferColumnTypes \/ ApiSetColumnMetadata \/ ApiGetColumnMetadata

SpecApi == InitApi /\ [][NextApi]_vars

(***************************************************************************)
(* Claims about the metadata accessors of CSV                              *)
(***************************************************************************)
\* the last call made on the CSV was `op`
LastCall(op) == ~api_call.none /\ api_call.some.op = op

\* C24: get_column_metadata(i) returns an error exactly when i >= column_count
\* or no call has stored metadata for column i yet; right after from_string
\* no column has metadata; after a successful infer_column_types every
\* i < column_count has metadata whose name is the header of column i.
C24_GetErrorIffNothingStored ==
    /\ LastCall("get") =>
          (~csv_result.some.ok <=>
              (api_call.some.index >= Len(csv_columns) \/ api_call.some.index \notin api_stored))
    /\ api_calls = 0 =>
          \A i \in ApiIndexes : ~GetColumnMetadata(csv_columns, i).ok
    /\ (LastCall("infer") /\ csv_result.some.ok) =>
          \A i \in 0..(Len(csv_columns) - 1) :
              /\ GetColumnMetadata(csv_columns, i).ok
              /\ GetColumnMetadata(csv_columns, i).value.name = csv_columns[i + 1].header

\* get_column_metadata has returned the metadata set_column_metadata stored
\* for the second of two columns, the first still being without metadata
C24_Witness ==
    /\ LastCall("get") /\ api_call.some.index = 1
    /\ csv_result.some.ok
    /\ csv_result.some.value.name = <<"x">>
    /\ Len(csv_columns) = 2
    /\ csv_columns[1].metadata.none

\* the steps that are calls of set_column_metadata leave the headers, the
\* values and row_count as they are
SetKeepsValues ==
    /\ Len(csv_columns') = Len(csv_columns)
    /\ csv_row_count' = csv_row_count
    /\ \A k \in 1..Len(csv_columns) :
          /\ csv_columns'[k].header = csv_columns[k].header
          /\ csv_columns'[k].values = csv_columns[k].values

\* the metadata of every column but the one at `index` is as it was
SetKeepsOtherMetadata(index) ==
    \A k \in 1..Len(csv_columns) :
        k # index + 1 => csv_columns'[k].metadata = csv_columns[k].metadata

\* C30 as stated: set_column_metadata(index, m) with index >= column_count
\* returns the error "Column index out of bounds" and leaves every column's
\* metadata, the headers, the values and row_count unchanged; with a valid
\* index it replaces only that column's metadata.
C30_SetOutOfBoundsOrReplaces ==
    [][LastCall("set")' =>
          LET index == api_call'.some.index
              m == api_call'.some.js_metadata
          IN  /\ SetKeepsValues
              /\ SetKeepsOtherMetadata(index)
              /\ index >= Len(csv_columns) =>
                    /\ csv_result'.some = Err("Column index out of bounds")
                    /\ csv_columns' = csv_columns
              /\ (index < Len(csv_columns) /\ m.js = "object") =>
                    /\ csv_result'.some = Ok
                    /\ ToValue(csv_columns'[index + 1].metadata.some) = m]_vars

\* C30, amended: what the first half says holds when m deserializes to a
\* ColumnMetadata; when it does not, set_column_metadata returns the error
\* "Failed to deserialize metadata" for every index and changes nothing.
C30_SetDeserializesFirst ==
    [][LastCall("set")' =>
          LET index == api_call'.some.index
              m == api_call'.some.js_metadata
          IN  /\ SetKeepsValues
              /\ SetKeepsOtherMetadata(index)
              /\ m.js # "object" =>
                    /\ csv_result'.some = Err("Failed to deserialize metadata")
                    /\ csv_columns' = csv_columns
              /\ (index >= Len(csv_columns) /\ m.js = "object") =>
                    /\ csv_result'.some = Err("Column index out of bounds")
                    /\ csv_columns' = csv_columns
              /\ (index < Len(csv_columns) /\ m.js = "object") =>
                    /\ csv_result'.some = Ok
                    /\ ToValue(csv_columns'[index + 1].metadata.some) = m]_vars

\* set_column_metadata has been called with a metadata object and the index
\* column_count on a CSV of two columns whose second column had metadata: it
\* has returned "Column index out of bounds" and the metadata is still there
C30_Witness ==
    /\ LastCall("set")
    /\ Len(csv_columns) = 2
    /\ api_call.some.index = 2
    /\ api_call.some.js_metadata.js = "object"
    /\ csv_result.some = Err("Column index out of bounds")
    /\ csv_columns[1].metadata.none
    /\ ~csv_columns[2].metadata.none

(***************************************************************************)
(* CSV::generate_sql_schema applied to the ColumnMetadata of the columns   *)
(***************************************************************************)
MaxSchemaColumns == 2

\* the ColumnMetadata analyze_single_column builds for a column of four rows,
\* `null_count` of them empty: its sql_type is the one determine_sql_type
\* returns for null_count > 0
SchemaMetadata(name, data_type, null_count, confidence, anomalies) ==
    LET numeric_stats == IF data_type = "Integer"
                         THEN Some([min |-> SqlIntegers[4], max |-> SqlIntegers[5],
                                    mean |-> SqlIntegers[4]])
                         ELSE None
        text_stats == IF data_type = "Integer" THEN None
                      ELSE CalculateTextStats(WordColumn(4 - null_count, 0, null_count))
    IN  [name |-> name, data_type |-> data_type, confidence |-> confidence,
         row_count |-> 4, null_count |-> null_count, distinct_count |-> 4 - null_count,
         anomalies |-> anomalies,
         sql_type |-> DetermineSqlType(data_type, numeric_stats, text_stats, null_count > 0)]

\* the headers: a plain one and one with a backquote and a space
SchemaNames == {<<"i", "d">>, <<"a", BACKQUOTE, "b", " ", "C">>}

\* the confidence and the anomalies: a sure column without anomalies, and a
\* less sure one with the anomaly of its second row
SchemaFindings(data_type) ==
    {[confidence |-> One, anomalies |-> <<>>],
     [confidence |-> Frac(85, 100),
      anomalies |-> <<[row_index |-> 1, value |-> <<"x", "@", "y", ".", "o", "r", "g">>, expected_type |-> data_type,
                       found_type |-> "Email"]>>]}

SchemaColumnSet ==
    {SchemaMetadata(name, data_type, null_count, f.confidence, f.anomalies) :
        name \in SchemaNames, data_type \in {"Integer", "Text"}, null_count \in 0..1,
        f \in SchemaFindings("Integer") \cup SchemaFindings("Text")}

InitSchema ==
    /\ pc = "call"
    /\ sch_columns \in UNION {[1..n -> SchemaColumnSet] : n \in 0..MaxSchemaColumns}
    /\ \A i \in 1..Len(sch_columns) : \A k \in 1..Len(sch_columns[i].anomalies) :
          sch_columns[i].anomalies[k].expected_type = sch_columns[i].data_type
    /\ sch_sql = None
    /\ IdleDate /\ IdleScore /\ IdleCsv /\ IdleCat /\ IdleAn /\ IdleNorm /\ IdleAnomaly /\ IdleTwice /\ IdleStats /\ IdleSql /\ IdleIndex /\ IdleWorkers /\ IdleExec /\ IdleApi /\ IdleDetect

\* self.generate_sql_schema(&columns)
CallGenerateSqlSchema ==
    /\ pc = "call"
    /\ pc' = "done"
    /\ sch_sql' = Some(GenerateSqlSchema(sch_columns))
    /\ UNCHANGED sch_columns
    /\ UNCHANGED <<dateVars, scoreVars, csvVars, catVars, anVars, normVars, anomalyVars, twiceVars, statsVars, sqlVars, indexVars, workerVars, execVars, apiVars, detectVars>>

NextSchema == CallGenerateSqlSchema

SpecSchema == InitSchema /\ [][NextSchema]_vars

(***************************************************************************)
(* Claims about CSV::generate_sql_schema                                   *)
(***************************************************************************)
\* the lines of the schema
SchemaLines == SplitOn(sch_sql.some, {"\n"})

\* what follows the definition of a column on its line: nothing, the comma
\* before the next column, or a comment
AfterDefinition(rest) ==
    \/ rest = <<>>
    \/ rest = <<",">>
    \/ StartsWith(rest, <<" ", "-", "-", " ">>)

\* C28: in the CREATE TABLE statement every column definition is the escaped
\* name of the column followed by its sql_type, which ends in NULL or NOT
\* NULL, and no second NULL or NOT NULL follows it, for nullable and
\* non-nullable columns alike.
C28_NullabilityOnce ==
    pc = "done" =>
        /\ SchemaLines[2] = <<"C", "R", "E", "A", "T", "E", " ", "T", "A", "B", "L", "E", " ", "a", "n", "a", "l", "y", "z", "e", "d", "_", "d", "a", "t", "a", " ", "(">>
        /\ \A i \in 1..Len(sch_columns) :
              LET col == sch_columns[i]
                  line == SchemaLines[2 + i]
                  definition == <<" ", " ", " ", " ">> \o EscapeIdentifier(col.name)
                                \o <<" ">> \o col.sql_type
              IN  /\ EndsWith(col.sql_type, IF col.null_count > 0 THEN <<" ", "N", "U", "L", "L">>
                                            ELSE <<" ", "N", "O", "T", " ", "N", "U", "L", "L">>)
                  /\ StartsWith(line, definition)
                  /\ AfterDefinition(SubSeq(line, Len(definition) + 1, Len(line)))

(***************************************************************************)
(* CSV::detect_single_value_type applied to one value                      *)
(***************************************************************************)
\* the values: an integer, ten digits, a decimal, an integer with a plus sign,
\* three numbers between points, a date, an amount, an e-mail address, a
\* word, an integer between spaces
DetectCells ==
    {<<"7">>, TenDigits, <<"5", ".", "0">>, <<"+", "5">>, <<"1", ".", "2", ".", "3">>,
     <<"2", "0", "2", "4", "-", "0", "1", "-", "1", "5">>, <<"$", "5">>,
     <<"a", "@", "b", ".", "c", "o">>, <<"t", "h", "r", "e", "e">>, <<" ", "7", " ">>}

InitDetect ==
    /\ pc = "call"
    /\ dv_value \in DetectCells
    /\ \E order \in TypeOrders : dv_order = Some(order)
    /\ dv_result = None
    /\ IdleDate /\ IdleScore /\ IdleCsv /\ IdleCat /\ IdleAn /\ IdleNorm /\ IdleAnomaly /\ IdleTwice /\ IdleStats /\ IdleSql /\ IdleIndex /\ IdleWorkers /\ IdleExec /\ IdleApi /\ IdleSchema

\* self.detect_single_value_type(value)
CallDetectSingleValueType ==
    /\ pc = "call"
    /\ pc' = "done"
    /\ dv_result' = Some(DetectSingleValueType(dv_value, dv_order.some))
    /\ UNCHANGED <<dv_value, dv_order>>
    /\ UNCHANGED <<dateVars, scoreVars, csvVars, catVars, anVars, normVars, anomalyVars, twiceVars, statsVars, sqlVars, indexVars, workerVars, execVars, apiVars, schemaVars>>

NextDetect == CallDetectSingleValueType

SpecDetect == InitDetect /\ [][NextDetect]_vars

(***************************************************************************)
(* Claims about CSV::detect_single_value_type                              *)
(***************************************************************************)
\* the types the value is a definite match for: one of the patterns of the
\* type matches it
DefiniteTypes(value) == {t \in DOMAIN TYPE_PATTERNS : MatchesType(t, Trim(value))}

\* the first type of the priority order among `types`
FirstInPriority(types) ==
    TypeOrdering[CHOOSE k \in 1..Len(TypeOrdering) :
                    /\ TypeOrdering[k] \in types
                    /\ \A j \in 1..(k - 1) : TypeOrdering[j] \notin types]

\* C26: for a non-null value detect_single_value_type returns (T, 1.0), T the
\* first type of the priority order the value is a definite match for, or
\* (Text, 0.5) when there is none; no other confidence is returned, and of
\* several matching types the one of higher priority is returned.
C26_FirstDefiniteOrText ==
    pc = "done" /\ Trim(dv_value) # <<>> =>
        dv_result.some =
            IF DefiniteTypes(dv_value) # {}
            THEN [data_type |-> FirstInPriority(DefiniteTypes(dv_value)), confidence |-> One]
            ELSE [data_type |-> "Text", confidence |-> Tenths(5)]

(***************************************************************************)
(* The producers of confidences, each applied to a column: from_column and *)
(* best_type of TypeScores, and CategoricalType::analyze_column            *)
(***************************************************************************)
InitConfidence == InitScore \/ InitCat

NextConfidence == NextScore \/ NextCat

SpecConfidence == InitConfidence /\ [][NextConfidence]_vars

(***************************************************************************)
(* Claims about the range of the confidences                               *)
(***************************************************************************)
\* 0 <= x <= 1, which NaN is not
InUnit(x) == ~IsNaN(x) /\ FLe(Zero, x) /\ FLe(x, One)

\* the confidences the six recognizers give a value
RecognizerConfidences(v) ==
    {NumericDetectConfidence(v), CurrencyDetectConfidence(v), DateDetectConfidence(v),
     EmailDetectConfidence(v), PhoneDetectConfidence(v), CategoricalDetectConfidence(v)}

\* the six sub-scores of a column and its header, in the order of their weights
SubScores(values, column_name) ==
    <<CardinalityRatioScore(values), ValueDistributionScore(values), ValueFrequencyScore(values),
      PatternMatchScore(values), LengthConsistencyScore(values), ColumnNameScore(column_name)>>

CategoricalWeights == <<Tenths(4), Tenths(2), Tenths(1), Tenths(1), Tenths(1), Tenths(1)>>

\* C25: every confidence lies in [0, 1]: the confidence each recognizer gives
\* a value, each column score of TypeScores, the confidence of best_type, and
\* the score of analyze_column, which is the sum of six sub-scores in [0, 1]
\* with weights that sum to 1, also for a column of empty strings only.
C25_ConfidencesInUnitInterval ==
    /\ pc = "scored" =>
          \A i \in 1..Len(sc_values) : \A c \in RecognizerConfidences(sc_values[i]) : InUnit(c)
    /\ \A f \in DOMAIN sc_scores : InUnit(sc_scores[f])
    /\ InUnit(sc_best.confidence)
    /\ SumSeq(CategoricalWeights) = One
    /\ cat_result # None =>
          /\ InUnit(cat_result.score)
          /\ Len(cat_values) >= MIN_SAMPLE_SIZE =>
                LET subs == SubScores(cat_values, cat_name)
                IN  /\ \A k \in 1..6 : InUnit(subs[k])
                    /\ cat_result.score = SumSeq([k \in 1..6 |-> FMul(CategoricalWeights[k], subs[k])])

\* analyze_column has scored a column of twenty empty strings: the coefficient
\* of variation of the lengths is 0.0 / 0.0, the length consistency score 0,
\* and the score of the column is above 0
C25_Witness ==
    /\ pc = "done" /\ cat_result # None
    /\ cat_values = Run(20, <<>>)
    /\ LengthConsistencyScore(cat_values) = Zero
    /\ FGt(cat_result.score, Zero)
=============================================================================
